---------------------------- MODULE Spec2Model ----------------------------
(***************************************************************************)
(* A model of the textspec notation package: the indentation-sensitive     *)
(* Lexer, the recursive-descent Parser that records the selection markers  *)
(* while it builds the tree, the Serializer, and the matcher (getRange)    *)
(* that searches a parsed document for a pattern.                          *)
(*                                                                         *)
(* A string is a sequence of one-character strings.  Positions in the      *)
(* input are 0-based as in the source: the character at position p of s    *)
(* is s[p + 1].                                                            *)
(***************************************************************************)
EXTENDS Integers, Sequences, FiniteSets, TLC

(***************************************************************************)
(* Characters                                                              *)
(***************************************************************************)
NL == "\n"
CR == "\r"
TAB == "\t"
BS == "\\"
QUOTE == "\""

Lower ==
  {"a","b","c","d","e","f","g","h","i","j","k","l","m",
   "n","o","p","q","r","s","t","u","v","w","x","y","z"}

Upper ==
  {"A","B","C","D","E","F","G","H","I","J","K","L","M",
   "N","O","P","Q","R","S","T","U","V","W","X","Y","Z"}

Digits == {"0","1","2","3","4","5","6","7","8","9"}

isIdentStart(c) == c \in Lower \cup Upper

isIdentChar(c) == c \in Lower \cup Upper \cup Digits \cup {"_", "-"}

isDigit(c) == c \in Digits

isHexDigit(c) == c \in Digits \cup {"a","b","c","d","e","f","A","B","C","D","E","F"}

\* s[i] for a 1-based index i, the empty string outside the string
\* (JavaScript's `input[i] ?? ""`).
CharAt(s, i) == IF i \in 1..Len(s) THEN s[i] ELSE ""

\* const v = value; then F(v): a value computed once and used by what follows
Bind(value, F(_)) == F(value)

(***************************************************************************)
(* Errors and tokens                                                       *)
(***************************************************************************)
NoError == [code |-> "None", line |-> 0, column |-> 0]

parseError(code, line, column) == [code |-> code, line |-> line, column |-> column]

NoToken == [type |-> "NONE", value |-> <<>>, line |-> 0, column |-> 0]

Tok(type, value, loc) ==
  [type |-> type, value |-> value, line |-> loc.line, column |-> loc.column]

(***************************************************************************)
(* Lexer                                                                   *)
(***************************************************************************)
RECURSIVE NormalizeFrom(_, _)
NormalizeFrom(s, i) ==
  IF i > Len(s) THEN <<>>
  ELSE IF s[i] = CR /\ CharAt(s, i + 1) = NL
       THEN <<NL>> \o NormalizeFrom(s, i + 2)
       ELSE <<s[i]>> \o NormalizeFrom(s, i + 1)

\* new Lexer(input)
NewLexer(input) ==
  [ input           |-> NormalizeFrom(input, 1),
    pos             |-> 0,
    line            |-> 1,
    column          |-> 1,
    indentStack     |-> <<0>>,
    pendingDedents  |-> 0,
    atLineStart     |-> TRUE,
    inRawMode       |-> FALSE,
    expectIdent     |-> TRUE,
    expectAttrValue |-> FALSE ]

setExpectIdent(L, expect) == [L EXCEPT !.expectIdent = expect]

setRawMode(L, enabled) == [L EXCEPT !.inRawMode = enabled]

location(L) == [line |-> L.line, column |-> L.column]

peek(L, offset) == CharAt(L.input, L.pos + offset + 1)

isEOF(L) == L.pos >= Len(L.input)

\* advance(): the lexer after consuming the current character
advance(L) ==
  IF isEOF(L) THEN L
  ELSE IF peek(L, 0) = NL
       THEN [L EXCEPT !.pos = @ + 1, !.line = @ + 1, !.column = 1,
                      !.atLineStart = TRUE]
       ELSE [L EXCEPT !.pos = @ + 1, !.column = @ + 1]

\* What a lexer call returns: the lexer afterwards, the token (NoToken when
\* the call threw or, for handleLineStart, returned null) and the error thrown.
Ret(L, tok) == [lex |-> L, tok |-> tok, err |-> NoError]

Throw(L, code, line, column) ==
  [lex |-> L, tok |-> NoToken, err |-> parseError(code, line, column)]

makeToken(L, type, value) == Tok(type, value, location(L))

singleChar(L, type) == Ret(advance(L), Tok(type, <<peek(L, 0)>>, location(L)))

\* A loop that takes a tab for one more space of the indentation
RECURSIVE CountSpacesAndTabs(_, _)
CountSpacesAndTabs(L, spaces) ==
  IF peek(L, 0) \in {" ", TAB} THEN CountSpacesAndTabs(advance(L), spaces + 1)
  ELSE [lex |-> L, spaces |-> spaces]

\* The loop of handleLineStart that counts the leading spaces; it stops in
\* front of a tab.
RECURSIVE CountSpaces(_, _)
CountSpaces(L, spaces) ==
  IF peek(L, 0) = " " THEN CountSpaces(advance(L), spaces + 1)
  ELSE [lex |-> L, spaces |-> spaces]

Top(stack) == IF Len(stack) > 0 THEN stack[Len(stack)] ELSE 0

\* The dedent loop of handleLineStart: pop while the top is above `spaces`.
RECURSIVE PopTo(_, _, _)
PopTo(stack, spaces, count) ==
  IF Len(stack) > 1 /\ Top(stack) > spaces
  THEN PopTo(SubSeq(stack, 1, Len(stack) - 1), spaces, count + 1)
  ELSE [stack |-> stack, count |-> count]

\* A handleLineStart that takes any even width above the top as a new level
handleLineStartAnyStep(L0) ==
  LET L1 == [L0 EXCEPT !.atLineStart = FALSE, !.expectIdent = TRUE]
      startLoc == location(L1)
  IN  IF peek(L1, 0) = NL THEN Ret(L1, NoToken)
      ELSE Bind(CountSpaces(L1, 0), LAMBDA c :
        LET L2 == c.lex
            spaces == c.spaces
            currentIndent == Top(L2.indentStack)
        IN  IF peek(L2, 0) = TAB
              THEN Throw(L2, "TabsInIndentation", L2.line, L2.column)
            ELSE IF peek(L2, 0) = NL \/ isEOF(L2) THEN Ret(L2, NoToken)
            ELSE IF spaces % 2 # 0
              THEN Throw(L2, "IndentationNotMultipleOfTwo",
                         startLoc.line, startLoc.column)
            ELSE IF spaces > currentIndent
              THEN Ret([L2 EXCEPT !.indentStack = Append(@, spaces)],
                       Tok("INDENT", <<>>, startLoc))
            ELSE IF spaces < currentIndent
              THEN Bind(PopTo(L2.indentStack, spaces, 0), LAMBDA popped :
                     IF Top(popped.stack) # spaces
                     THEN Throw([L2 EXCEPT !.indentStack = popped.stack],
                                "IndentationNotMultipleOfTwo",
                                startLoc.line, startLoc.column)
                     ELSE Ret([L2 EXCEPT !.indentStack = popped.stack,
                                         !.pendingDedents = popped.count - 1],
                              Tok("DEDENT", <<>>, startLoc)))
            ELSE Ret(L2, NoToken))

\* A handleLineStart that queues as many dedents as it has popped levels
handleLineStartQueueAll(L0) ==
  LET L1 == [L0 EXCEPT !.atLineStart = FALSE, !.expectIdent = TRUE]
      startLoc == location(L1)
  IN  IF peek(L1, 0) = NL THEN Ret(L1, NoToken)
      ELSE Bind(CountSpaces(L1, 0), LAMBDA c :
        LET L2 == c.lex
            spaces == c.spaces
            currentIndent == Top(L2.indentStack)
        IN  IF peek(L2, 0) = TAB
              THEN Throw(L2, "TabsInIndentation", L2.line, L2.column)
            ELSE IF peek(L2, 0) = NL \/ isEOF(L2) THEN Ret(L2, NoToken)
            ELSE IF spaces % 2 # 0
              THEN Throw(L2, "IndentationNotMultipleOfTwo",
                         startLoc.line, startLoc.column)
            ELSE IF spaces > currentIndent
              THEN IF spaces # currentIndent + 2
                   THEN Throw(L2, "IndentationSkipsLevel",
                              startLoc.line, startLoc.column)
                   ELSE Ret([L2 EXCEPT !.indentStack = Append(@, spaces)],
                            Tok("INDENT", <<>>, startLoc))
            ELSE IF spaces < currentIndent
              THEN Bind(PopTo(L2.indentStack, spaces, 0), LAMBDA popped :
                     IF Top(popped.stack) # spaces
                     THEN Throw([L2 EXCEPT !.indentStack = popped.stack],
                                "IndentationNotMultipleOfTwo",
                                startLoc.line, startLoc.column)
                     ELSE Ret([L2 EXCEPT !.indentStack = popped.stack,
                                         !.pendingDedents = popped.count],
                              Tok("DEDENT", <<>>, startLoc)))
            ELSE Ret(L2, NoToken))

handleLineStart(L0) ==
  LET L1 == [L0 EXCEPT !.atLineStart = FALSE, !.expectIdent = TRUE]
      startLoc == location(L1)
  IN  IF peek(L1, 0) = NL THEN Ret(L1, NoToken)
      ELSE Bind(CountSpaces(L1, 0), LAMBDA c :
        LET L2 == c.lex
            spaces == c.spaces
            currentIndent == Top(L2.indentStack)
        IN  IF peek(L2, 0) = TAB
              THEN Throw(L2, "TabsInIndentation", L2.line, L2.column)
            ELSE IF peek(L2, 0) = NL \/ isEOF(L2) THEN Ret(L2, NoToken)
            ELSE IF spaces % 2 # 0
              THEN Throw(L2, "IndentationNotMultipleOfTwo",
                         startLoc.line, startLoc.column)
            ELSE IF spaces > currentIndent
              THEN IF spaces # currentIndent + 2
                   THEN Throw(L2, "IndentationSkipsLevel",
                              startLoc.line, startLoc.column)
                   ELSE Ret([L2 EXCEPT !.indentStack = Append(@, spaces)],
                            Tok("INDENT", <<>>, startLoc))
            ELSE IF spaces < currentIndent
              THEN Bind(PopTo(L2.indentStack, spaces, 0), LAMBDA popped :
                     IF Top(popped.stack) # spaces
                     THEN Throw([L2 EXCEPT !.indentStack = popped.stack],
                                "IndentationNotMultipleOfTwo",
                                startLoc.line, startLoc.column)
                     ELSE Ret([L2 EXCEPT !.indentStack = popped.stack,
                                         !.pendingDedents = popped.count - 1],
                              Tok("DEDENT", <<>>, startLoc)))
            ELSE Ret(L2, NoToken))

\* String.fromCharCode(parseInt(hex, 16)) for the code units the model uses;
\* the hex digits are read case-insensitively.
LowerHex(c) ==
  CASE c = "A" -> "a" [] c = "B" -> "b" [] c = "C" -> "c"
    [] c = "D" -> "d" [] c = "E" -> "e" [] c = "F" -> "f" [] OTHER -> c

fromCharCode(hex) ==
  LET h == [i \in 1..Len(hex) |-> LowerHex(hex[i])]
  IN  CASE h = <<"0","0","0","9">> -> TAB
        [] h = <<"0","0","0","a">> -> NL
        [] h = <<"0","0","0","d">> -> CR
        [] h = <<"0","0","2","0">> -> " "
        [] h = <<"0","0","2","2">> -> QUOTE
        [] h = <<"0","0","3","b">> -> ";"
        [] h = <<"0","0","5","b">> -> "["
        [] h = <<"0","0","5","c">> -> BS
        [] h = <<"0","0","5","d">> -> "]"
        [] h = <<"0","0","5","e">> -> "^"
        [] h = <<"0","0","6","1">> -> "a"
        [] h = <<"0","0","7","b">> -> "{"
        [] h = <<"0","0","7","c">> -> "|"
        [] h = <<"0","0","7","d">> -> "}"
        [] OTHER -> "?"

\* The four-hex-digit loop shared by readEscape and readString: the lexer
\* after the digits and the digits read, or ok = FALSE at the first
\* character that is no hex digit.
RECURSIVE ReadHex(_, _)
ReadHex(L, hex) ==
  IF Len(hex) = 4 THEN [ok |-> TRUE, lex |-> L, hex |-> hex]
  ELSE IF ~isHexDigit(peek(L, 0)) THEN [ok |-> FALSE, lex |-> L, hex |-> hex]
  ELSE ReadHex(advance(L), Append(hex, peek(L, 0)))

escapeMap(next) ==
  CASE next = "s" -> " "
    [] next = "t" -> TAB
    [] next = "n" -> NL
    [] next = "r" -> CR
    [] next \in {"[", "]", "{", "}", "|", "^", BS, QUOTE, ";"} -> next
    [] OTHER -> "undefined"

readEscape(L) ==
  LET loc == location(L)
  IN  Bind(advance(L), LAMBDA L1 :
        IF peek(L1, 0) = "u"
        THEN Bind(ReadHex(advance(L1), <<>>), LAMBDA h :
               IF h.ok
               THEN Ret(h.lex, Tok("TEXT", <<fromCharCode(h.hex)>>, loc))
               ELSE Throw(h.lex, "InvalidEscapeSequence", loc.line, loc.column))
        ELSE Bind(escapeMap(peek(L1, 0)), LAMBDA escaped :
               IF escaped # "undefined"
               THEN Ret(advance(L1), Tok("TEXT", <<escaped>>, loc))
               ELSE Throw(L1, "InvalidEscapeSequence", loc.line, loc.column)))
\* The loop of readString: L is past the opening quote.
RECURSIVE StringLoop(_, _, _)
StringLoop(L, value, loc) ==
  LET char == peek(L, 0)
  IN  IF isEOF(L) THEN Throw(L, "UnclosedQuote", loc.line, loc.column)
      ELSE IF char = QUOTE THEN Ret(advance(L), Tok("STRING", value, loc))
      ELSE IF char = BS
        THEN Bind(advance(L), LAMBDA L1 :
          LET next == peek(L1, 0)
          IN  IF next = "n" THEN StringLoop(advance(L1), Append(value, NL), loc)
              ELSE IF next = "t" THEN StringLoop(advance(L1), Append(value, TAB), loc)
              ELSE IF next = "r" THEN StringLoop(advance(L1), Append(value, CR), loc)
              ELSE IF next = "u"
                THEN Bind(ReadHex(advance(L1), <<>>), LAMBDA h :
                  IF h.ok
                  THEN StringLoop(h.lex, Append(value, fromCharCode(h.hex)), loc)
                  ELSE Throw(h.lex, "InvalidEscapeSequence", loc.line, loc.column))
              \* `\"`, `\\` and any other character stand for themselves; at
              \* the end of the input `next` is the empty string
              ELSE StringLoop(advance(L1),
                              IF next = "" THEN value ELSE Append(value, next),
                              loc))
      ELSE IF char = NL THEN Throw(L, "UnclosedQuote", loc.line, loc.column)
      ELSE StringLoop(advance(L), Append(value, char), loc)

readString(L) == StringLoop(advance(L), <<>>, location(L))

\* The loop of readJsonValue.
RECURSIVE JsonLoop(_, _, _, _, _, _, _)
JsonLoop(L, depth, value, inString, openChar, closeChar, loc) ==
  LET char == peek(L, 0)
      d == IF char = openChar THEN depth + 1
           ELSE IF char = closeChar THEN depth - 1 ELSE depth
  IN  IF isEOF(L)
      THEN IF depth # 0 THEN Throw(L, "UnbalancedBrace", loc.line, loc.column)
           ELSE Ret(L, Tok("JSON", value, loc))
      ELSE Bind(advance(L), LAMBDA L1 :
        IF inString
          THEN IF char = BS
               THEN IF isEOF(L1)
                    THEN JsonLoop(L1, depth, Append(value, char), TRUE,
                                  openChar, closeChar, loc)
                    ELSE JsonLoop(advance(L1), depth,
                                  value \o <<char, peek(L1, 0)>>, TRUE,
                                  openChar, closeChar, loc)
               ELSE JsonLoop(L1, depth, Append(value, char), char # QUOTE,
                             openChar, closeChar, loc)
        ELSE IF char = QUOTE
          THEN JsonLoop(L1, depth, Append(value, char), TRUE,
                        openChar, closeChar, loc)
        ELSE IF d = 0 THEN Ret(L1, Tok("JSON", Append(value, char), loc))
        ELSE JsonLoop(L1, d, Append(value, char), FALSE, openChar, closeChar, loc))

readJsonValue(L) ==
  LET isObject == peek(L, 0) = "{"
  IN  JsonLoop(L, 0, <<>>, FALSE,
               IF isObject THEN "{" ELSE "[", IF isObject THEN "}" ELSE "]",
               location(L))

RECURSIVE IdentLoop(_, _)
IdentLoop(L, value) ==
  IF isIdentChar(peek(L, 0)) THEN IdentLoop(advance(L), Append(value, peek(L, 0)))
  ELSE [lex |-> L, value |-> value]

readIdentOrKeyword(L) ==
  Bind(IdentLoop(L, <<>>), LAMBDA r :
    IF r.value = <<"t","r","u","e">> \/ r.value = <<"f","a","l","s","e">>
    THEN Ret(r.lex, Tok("BOOLEAN", r.value, location(L)))
    ELSE Ret(r.lex, Tok("IDENT", r.value, location(L))))
RECURSIVE NumberLoop(_, _)
NumberLoop(L, value) ==
  IF isDigit(peek(L, 0)) THEN NumberLoop(advance(L), Append(value, peek(L, 0)))
  ELSE [lex |-> L, value |-> value]

readNumber(L) ==
  Bind(NumberLoop(L, <<>>), LAMBDA r :
    Ret(r.lex, Tok("NUMBER", r.value, location(L))))
\* The stop condition of readText's loop in raw mode.
RawTextStops(L) ==
  LET char == peek(L, 0)
  IN  \/ char = NL
      \/ char = "|" /\ peek(L, -1) # BS
      \/ char = "^" /\ peek(L, -1) # BS
      \/ char = BS

\* The stop condition of readText's loop in normal mode.
TextStops(L) ==
  LET char == peek(L, 0)
  IN  \/ char \in {NL, ":", "[", "]", "{", "}", "|", "^", BS, " ", "=", QUOTE}
      \/ char = ";" /\ peek(L, 1) = ";"

RECURSIVE TextLoop(_, _)
TextLoop(L, value) ==
  IF isEOF(L) THEN [lex |-> L, value |-> value]
  ELSE IF (IF L.inRawMode THEN RawTextStops(L) ELSE TextStops(L))
       THEN [lex |-> L, value |-> value]
       ELSE TextLoop(advance(L), Append(value, peek(L, 0)))

readText(L) ==
  Bind(TextLoop(L, <<>>), LAMBDA r :
    Ret(r.lex, Tok("TEXT", r.value, location(L))))
\* nextToken after the pending dedents, the line start and the end of input
\* have been dealt with: the token that starts at the current character.
ScanToken(L) ==
  LET char == peek(L, 0)
      noAttr == [L EXCEPT !.expectAttrValue = FALSE]
      ident == [L EXCEPT !.expectIdent = TRUE]
  IN  IF char = NL THEN Ret(advance(L), Tok("NEWLINE", <<NL>>, location(L)))
      ELSE IF ~L.inRawMode /\ char = ";" /\ peek(L, 1) = ";"
        THEN Ret([advance(advance(L)) EXCEPT !.expectIdent = TRUE],
                 Tok("BLOCK_SEP", <<";", ";">>, location(L)))
      ELSE IF ~L.inRawMode /\ char = ":" THEN singleChar(L, "COLON")
      ELSE IF ~L.inRawMode /\ char = "!" THEN singleChar(L, "BANG")
      ELSE IF ~L.inRawMode /\ char = "["
        THEN IF L.expectAttrValue THEN readJsonValue(noAttr)
             ELSE singleChar(ident, "LBRACKET")
      ELSE IF ~L.inRawMode /\ char = "]" THEN singleChar(L, "RBRACKET")
      ELSE IF ~L.inRawMode /\ char = "{"
        THEN IF L.expectAttrValue THEN readJsonValue(noAttr)
             ELSE singleChar(ident, "LBRACE")
      ELSE IF ~L.inRawMode /\ char = "}" THEN singleChar(L, "RBRACE")
      ELSE IF ~L.inRawMode /\ char = "="
        THEN singleChar([L EXCEPT !.expectIdent = TRUE, !.expectAttrValue = TRUE],
                        "EQUALS")
      ELSE IF ~L.inRawMode /\ char = "@" THEN singleChar(ident, "AT")
      ELSE IF ~L.inRawMode /\ char = "~" THEN singleChar(ident, "TILDE")
      ELSE IF char = "|" /\ peek(L, -1) # BS THEN singleChar(L, "FOCUS")
      ELSE IF char = "^" /\ peek(L, -1) # BS THEN singleChar(L, "ANCHOR")
      ELSE IF char = BS
        THEN IF L.inRawMode
             THEN IF peek(L, 1) = "|" \/ peek(L, 1) = "^" THEN readEscape(L)
                  ELSE singleChar(L, "TEXT")
             ELSE readEscape(L)
      ELSE IF char = QUOTE THEN readString(noAttr)
      ELSE IF char = " " THEN singleChar(L, "SPACE")
      ELSE IF ~L.inRawMode /\ L.expectIdent /\ isIdentStart(char)
        THEN readIdentOrKeyword([L EXCEPT !.expectIdent = FALSE,
                                          !.expectAttrValue = FALSE])
      ELSE IF isDigit(char) THEN readNumber(noAttr)
      ELSE readText(L)
\* A nextToken that ends the input without closing the open levels
AfterLineStartNoDedents(L) ==
  IF isEOF(L) THEN Ret(L, makeToken(L, "EOF", <<>>)) ELSE ScanToken(L)

\* nextToken once the pending dedents have been dealt with and the line
\* start, if any, has produced no token.
AfterLineStart(L) ==
  IF isEOF(L)
  THEN IF Len(L.indentStack) > 1
       THEN Ret([L EXCEPT !.indentStack = SubSeq(@, 1, Len(@) - 1)],
                makeToken(L, "DEDENT", <<>>))
       ELSE Ret(L, makeToken(L, "EOF", <<>>))
  ELSE ScanToken(L)

nextToken(L) ==
  IF L.pendingDedents > 0
  THEN Ret([L EXCEPT !.pendingDedents = @ - 1], makeToken(L, "DEDENT", <<>>))
  ELSE Bind(IF L.atLineStart /\ ~isEOF(L) THEN handleLineStart(L)
            ELSE Ret(L, NoToken),
            LAMBDA indentToken :
         IF indentToken.err # NoError \/ indentToken.tok # NoToken
         THEN indentToken
         ELSE AfterLineStart(indentToken.lex))
(***************************************************************************)
(* Parser                                                                  *)
(*                                                                         *)
(* A Parser is the record of the fields of the class.  `err` is the error  *)
(* the parse has thrown, NoError while it runs: once it is set every       *)
(* operation leaves the parser alone and every loop ends, which is how the *)
(* exception unwinds the recursive descent.                                *)
(*                                                                         *)
(* Attributes are the sequence of <<key, value>> pairs of the object in    *)
(* insertion order (Object.entries), the keys unique.                      *)
(***************************************************************************)
NullPoint == [path |-> <<>>, offset |-> -1]

Point(path, offset) == [path |-> path, offset |-> offset]

Running(P) == P.err = NoError

Fail(P, code, line, column) ==
  IF Running(P) THEN [P EXCEPT !.err = parseError(code, line, column)] ELSE P

\* The pseudo-error of a parse that never returns: the loop it names has
\* come back to the state it was in one iteration earlier.
DoesNotTerminate == parseError("DoesNotTerminate", 0, 0)

\* Parser.advance(): the token consumed is the caller's P.currentToken.
Advance(P) ==
  IF ~Running(P) THEN P
  ELSE Bind(nextToken(P.lexer), LAMBDA r :
         IF r.err # NoError THEN [P EXCEPT !.lexer = r.lex, !.err = r.err]
         ELSE [P EXCEPT !.lexer = r.lex, !.currentToken = r.tok])

\* new Parser(input)
NewParser(input) ==
  Advance([ lexer         |-> NewLexer(input),
            currentToken  |-> NoToken,
            selection     |-> [anchor |-> NullPoint, focus |-> NullPoint],
            currentPath   |-> <<>>,
            currentOffset |-> 0,
            err           |-> NoError ])

is(P, type) == P.currentToken.type = type

expect(P, type, errorCode) ==
  IF ~is(P, type)
  THEN Fail(P, errorCode, P.currentToken.line, P.currentToken.column)
  ELSE Advance(P)

\* A loop that passes over INDENT tokens as well
RECURSIVE skipNewlinesAndIndents(_)
skipNewlinesAndIndents(P) ==
  IF Running(P) /\ (is(P, "NEWLINE") \/ is(P, "INDENT"))
  THEN skipNewlinesAndIndents(Advance(P)) ELSE P

RECURSIVE skipNewlines(_)
skipNewlines(P) ==
  IF Running(P) /\ is(P, "NEWLINE") THEN skipNewlines(Advance(P)) ELSE P

RECURSIVE skipBlockSeparators(_)
skipBlockSeparators(P) ==
  IF Running(P) /\ (is(P, "NEWLINE") \/ is(P, "BLOCK_SEP"))
  THEN skipBlockSeparators(Advance(P)) ELSE P

recordAnchor(P) ==
  IF P.selection.anchor # NullPoint
  THEN Fail(P, "MultipleAnchor", P.currentToken.line, P.currentToken.column)
  ELSE IF ~Running(P) THEN P
  ELSE [P EXCEPT !.selection.anchor = Point(P.currentPath, P.currentOffset)]

recordFocus(P) ==
  IF P.selection.focus # NullPoint
  THEN Fail(P, "MultipleFocus", P.currentToken.line, P.currentToken.column)
  ELSE IF ~Running(P) THEN P
  ELSE [P EXCEPT !.selection.focus = Point(P.currentPath, P.currentOffset)]

\* ---- attributes ----

\* attrs[key] = value on an object: a new key is appended, an old one keeps
\* its place.
SetAttr(attrs, key, value) ==
  IF \E i \in 1..Len(attrs) : attrs[i][1] = key
  THEN [i \in 1..Len(attrs) |->
          IF attrs[i][1] = key THEN <<key, value>> ELSE attrs[i]]
  ELSE Append(attrs, <<key, value>>)

RECURSIVE ParseIntFrom(_, _, _)
ParseIntFrom(digits, i, acc) ==
  IF i > Len(digits) THEN acc
  ELSE ParseIntFrom(digits, i + 1,
         acc * 10 + (CHOOSE d \in 0..9 :
                       digits[i] = <<"0","1","2","3","4","5","6","7","8","9">>[d + 1]))

\* parseInt(value, 10) of a NUMBER token
parseInt(digits) == ParseIntFrom(digits, 1, 0)

\* JSON.parse of the text of a JSON token.  The decoder is the platform's;
\* the model keeps a decoded array or object as its text without the
\* white space outside strings, which is the text JSON.stringify gives back.
RECURSIVE JsonCompact(_, _, _)
JsonCompact(raw, i, inString) ==
  IF i > Len(raw) THEN <<>>
  ELSE IF inString
    THEN IF raw[i] = BS /\ i < Len(raw)
         THEN <<raw[i], raw[i + 1]>> \o JsonCompact(raw, i + 2, TRUE)
         ELSE <<raw[i]>> \o JsonCompact(raw, i + 1, raw[i] # QUOTE)
  ELSE IF raw[i] \in {" ", NL, TAB, CR} THEN JsonCompact(raw, i + 1, FALSE)
  ELSE <<raw[i]>> \o JsonCompact(raw, i + 1, raw[i] = QUOTE)

JSONparse(raw) == [t |-> "json", v |-> JsonCompact(raw, 1, FALSE)]

\* parseAttributeValue: the parser afterwards and the value read
parseAttributeValue(P) ==
  LET token == P.currentToken
  IN  IF is(P, "JSON") THEN [p |-> Advance(P), v |-> JSONparse(token.value)]
      ELSE IF is(P, "STRING")
        THEN [p |-> Advance(P), v |-> [t |-> "string", v |-> token.value]]
      ELSE IF is(P, "NUMBER")
        THEN [p |-> Advance(P), v |-> [t |-> "number", v |-> parseInt(token.value)]]
      ELSE IF is(P, "BOOLEAN")
        THEN [p |-> Advance(P),
              v |-> [t |-> "boolean", v |-> token.value = <<"t","r","u","e">>]]
      ELSE IF is(P, "IDENT")
        THEN [p |-> Advance(P), v |-> [t |-> "string", v |-> token.value]]
      ELSE [p |-> Fail(P, "MalformedAttribute", token.line, token.column),
            v |-> [t |-> "string", v |-> <<>>]]

\* The loop of parseAttributes
RECURSIVE AttributesLoop(_, _)
AttributesLoop(P, attrs) ==
  IF ~(Running(P) /\ is(P, "SPACE")) THEN [p |-> P, v |-> attrs]
  ELSE Bind(Advance([P EXCEPT !.lexer = setExpectIdent(@, TRUE)]), LAMBDA P1 :
    LET keyToken == P1.currentToken
    IN  IF ~Running(P1) \/ ~is(P1, "IDENT") THEN [p |-> P1, v |-> attrs]
        ELSE Bind(Advance(P1), LAMBDA P2 :
          IF ~Running(P2) THEN [p |-> P2, v |-> attrs]
          ELSE IF ~is(P2, "EQUALS")
            THEN [p |-> Fail(P2, "MalformedAttribute",
                             keyToken.line, keyToken.column),
                  v |-> attrs]
          ELSE Bind(parseAttributeValue(Advance(P2)), LAMBDA val :
                 AttributesLoop(val.p, SetAttr(attrs, keyToken.value, val.v)))))

parseAttributes(P) == AttributesLoop(P, <<>>)


\* ---- inline content ----

Text(text) == [kind |-> "text", text |-> text]

\* flushText of parseInlineContent
flushText(nodes, currentText) ==
  IF Len(currentText) > 0 THEN Append(nodes, Text(currentText)) ELSE nodes

\* An offset one character behind the pending text
calculateOffsetBehind(pendingText) == Len(pendingText) + 1

calculateOffset(pendingText) == Len(pendingText)

RECURSIVE MergeText(_, _, _)
MergeText(nodes, i, merged) ==
  IF i > Len(nodes) THEN merged
  ELSE IF nodes[i].kind = "text" /\ Len(merged) > 0
          /\ merged[Len(merged)].kind = "text"
       THEN MergeText(nodes, i + 1,
              [merged EXCEPT ![Len(merged)].text = @ \o nodes[i].text])
       ELSE MergeText(nodes, i + 1, Append(merged, nodes[i]))

\* A normalizeInlineNodes that leaves one Text node per code unit
RECURSIVE SplitText(_, _, _)
SplitText(nodes, i, split) ==
  IF i > Len(nodes) THEN split
  ELSE IF nodes[i].kind = "text"
       THEN SplitText(nodes, i + 1,
              split \o [k \in 1..Len(nodes[i].text) |-> Text(<<nodes[i].text[k]>>)])
       ELSE SplitText(nodes, i + 1, Append(split, nodes[i]))

normalizeInlineNodesApart(nodes) == SplitText(nodes, 1, <<>>)

normalizeInlineNodes(nodes) ==
  IF Len(nodes) = 0 THEN nodes ELSE MergeText(nodes, 1, <<>>)

\* The token that ends the loop of parseInlineContent
EndsInline(P) ==
  \/ is(P, "NEWLINE") \/ is(P, "EOF") \/ is(P, "RBRACKET")
  \/ is(P, "RBRACE") \/ is(P, "DEDENT") \/ is(P, "BLOCK_SEP")

\* A loop that consumes the current token whatever it is never ends when
\* the lexer hands the same token back without having moved and the token
\* adds nothing to what the loop accumulates.
Spins(P) ==
  Bind(Advance(P), LAMBDA Q :
    /\ Running(Q)
    /\ Q.lexer = P.lexer
    /\ Q.currentToken = P.currentToken
    /\ P.currentToken.value = <<>>)

parseInlineObject(P) ==
  LET loc == P.currentToken
  IN  Bind(Advance(P), LAMBDA P1 :
        LET typeToken == P1.currentToken
        IN  Bind(parseAttributes(expect(P1, "IDENT", "InvalidIdentifier")),
                 LAMBDA a :
              [p |-> IF is(a.p, "RBRACE") THEN Advance(a.p)
                     ELSE Fail(a.p, "UnbalancedBrace", loc.line, loc.column),
               v |-> [kind |-> "inlineObject", type |-> typeToken.value,
                      attrs |-> a.v]]))

RECURSIVE InlineLoop(_, _, _, _)
RECURSIVE parseMark(_)

\* The while loop of parseInlineContent and what follows it
InlineLoop(P, nodes, currentText, startPath) ==
  LET at == [P EXCEPT !.currentOffset = calculateOffset(currentText),
                      !.currentPath = Append(startPath, Len(nodes))]
      flushed == flushText(nodes, currentText)
      inside == [P EXCEPT !.currentPath = Append(startPath, Len(flushed))]
  IN  IF ~Running(P) \/ EndsInline(P)
      THEN [p |-> P, v |-> normalizeInlineNodes(flushText(nodes, currentText))]
      ELSE IF is(P, "ANCHOR")
        THEN InlineLoop(Advance(recordAnchor(at)), nodes, currentText, startPath)
      ELSE IF is(P, "FOCUS")
        THEN InlineLoop(Advance(recordFocus(at)), nodes, currentText, startPath)
      ELSE IF is(P, "LBRACKET")
        THEN Bind(parseMark(inside), LAMBDA m :
               InlineLoop(m.p, Append(flushed, m.v), <<>>, startPath))
      ELSE IF is(P, "LBRACE")
        THEN Bind(parseInlineObject(inside), LAMBDA o :
               InlineLoop(o.p, Append(flushed, o.v), <<>>, startPath))
      ELSE IF Spins(P)
        THEN [p |-> [P EXCEPT !.err = DoesNotTerminate], v |-> nodes]
      ELSE InlineLoop(Advance(P), nodes, currentText \o P.currentToken.value,
                      startPath)

parseInlineContent(P) == InlineLoop(P, <<>>, <<>>, P.currentPath)

parseMark(P) ==
  LET loc == P.currentToken
  IN  Bind(Advance(P), LAMBDA P1 :
        LET mode == IF is(P1, "AT") THEN "annotation"
                    ELSE IF is(P1, "TILDE") THEN "overlay" ELSE "decorator"
        IN  Bind(IF is(P1, "AT") \/ is(P1, "TILDE") THEN Advance(P1) ELSE P1,
                 LAMBDA P2 :
              LET typeToken == P2.currentToken
              IN  Bind(parseAttributes(expect(P2, "IDENT", "InvalidIdentifier")),
                       LAMBDA a :
                    Bind(parseInlineContent(
                           expect(a.p, "COLON", "MissingColonInMark")),
                         LAMBDA c :
                      [p |-> IF is(c.p, "RBRACKET") THEN Advance(c.p)
                             ELSE Fail(c.p, "UnbalancedBracket",
                                       loc.line, loc.column),
                       v |-> [kind |-> "mark", type |-> typeToken.value,
                              mode |-> mode, attrs |-> a.v,
                              children |-> c.v]]))))

\* ---- blocks ----

parseTextBlock(P, blockType, attrs) ==
  Bind(parseInlineContent([P EXCEPT !.currentOffset = 0]), LAMBDA c :
    [p |-> c.p,
     v |-> [kind |-> "textBlock", type |-> blockType, attrs |-> attrs,
            children |-> c.v]])

\* The inner loop of parseRawBlock: one raw line
RECURSIVE RawLineLoop(_, _)
RawLineLoop(P, lineContent) ==
  LET at == [P EXCEPT !.currentOffset = Len(lineContent)]
  IN  IF ~Running(P) \/ is(P, "NEWLINE") \/ is(P, "DEDENT") \/ is(P, "EOF")
      THEN [p |-> P, v |-> lineContent]
      ELSE IF is(P, "ANCHOR") THEN RawLineLoop(Advance(recordAnchor(at)), lineContent)
      ELSE IF is(P, "FOCUS") THEN RawLineLoop(Advance(recordFocus(at)), lineContent)
      ELSE IF Spins(P)
        THEN [p |-> [P EXCEPT !.err = DoesNotTerminate], v |-> lineContent]
      ELSE RawLineLoop(Advance(P), lineContent \o P.currentToken.value)

\* The outer loop of parseRawBlock: the raw lines
RECURSIVE RawLinesLoop(_, _, _)
RawLinesLoop(P, lines, basePath) ==
  IF ~Running(P) \/ is(P, "DEDENT") \/ is(P, "EOF")
  THEN [p |-> P, v |-> lines]
  ELSE Bind(RawLineLoop([P EXCEPT !.currentPath = Append(basePath, Len(lines))],
                        <<>>),
            LAMBDA l :
         RawLinesLoop(IF is(l.p, "NEWLINE") THEN Advance(l.p) ELSE l.p,
                      Append(lines, l.v), basePath))

parseRawBlock(P0, blockType, attrs) ==
  Bind(skipNewlines(P0), LAMBDA P1 :
    LET P2 == [P1 EXCEPT !.lexer = setRawMode(@, TRUE)]
        basePath == P2.currentPath
    IN  IF ~Running(P1) THEN [p |-> P1, v |-> NoToken]
        ELSE IF ~is(P2, "INDENT")
          THEN [p |-> [P2 EXCEPT !.lexer = setRawMode(@, FALSE)],
                v |-> [kind |-> "rawBlock", type |-> blockType, attrs |-> attrs,
                       lines |-> <<>>]]
        ELSE Bind(RawLinesLoop(Advance(P2), <<>>, basePath), LAMBDA r :
               Bind(IF is(r.p, "DEDENT") THEN Advance(r.p) ELSE r.p, LAMBDA P3 :
                 [p |-> IF Running(P3)
                        THEN [P3 EXCEPT !.lexer = setRawMode(@, FALSE)]
                        ELSE P3,
                  v |-> [kind |-> "rawBlock", type |-> blockType,
                         attrs |-> attrs, lines |-> r.v]])))

RECURSIVE parseBlock(_)
RECURSIVE ContainerLoop(_, _, _)
RECURSIVE InlineContainerLoop(_, _, _, _)

\* The loop of parseContainer: the child blocks
ContainerLoop(P, children, basePath) ==
  IF ~Running(P) \/ is(P, "DEDENT") \/ is(P, "EOF")
  THEN [p |-> P, v |-> children]
  ELSE Bind(parseBlock([P EXCEPT !.currentPath =
                                   Append(basePath, Len(children))]),
            LAMBDA b :
         ContainerLoop(skipNewlines(b.p), Append(children, b.v), basePath))

parseContainer(P, blockType, attrs) ==
  IF ~is(P, "INDENT")
  THEN [p |-> Fail(P, "EmptyContainer",
                   P.currentToken.line, P.currentToken.column),
        v |-> NoToken]
  ELSE Bind(ContainerLoop(Advance(P), <<>>, P.currentPath), LAMBDA c :
         Bind(IF is(c.p, "DEDENT") THEN Advance(c.p) ELSE c.p, LAMBDA P1 :
           [p |-> IF Len(c.v) = 0
                  THEN Fail(P1, "EmptyContainer",
                            P1.currentToken.line, P1.currentToken.column)
                  ELSE P1,
            v |-> [kind |-> "containerBlock", type |-> blockType,
                   attrs |-> attrs, children |-> c.v]]))

\* The loop of parseInlineContainer: the children separated by ;;
InlineContainerLoop(P, children, basePath, loc) ==
  IF ~Running(P) \/ is(P, "RBRACE") \/ is(P, "EOF")
  THEN [p |-> P, v |-> children]
  ELSE Bind(parseBlock([P EXCEPT !.currentPath =
                                   Append(basePath, Len(children))]),
            LAMBDA b :
         InlineContainerLoop(
           IF is(b.p, "BLOCK_SEP") THEN Advance(b.p)
           ELSE IF ~is(b.p, "RBRACE")
             THEN Fail(b.p, "UnbalancedBrace", loc.line, loc.column)
           ELSE b.p,
           Append(children, b.v), basePath, loc))

parseInlineContainer(P, blockType, attrs) ==
  LET loc == P.currentToken
  IN  Bind(InlineContainerLoop(Advance(P), <<>>, P.currentPath, loc), LAMBDA c :
        Bind(IF ~is(c.p, "RBRACE")
             THEN Fail(c.p, "UnbalancedBrace", loc.line, loc.column)
             ELSE Advance(c.p),
             LAMBDA P1 :
          [p |-> IF Len(c.v) = 0
                 THEN Fail(P1, "EmptyContainer", loc.line, loc.column)
                 ELSE P1,
           v |-> [kind |-> "containerBlock", type |-> blockType,
                  attrs |-> attrs, children |-> c.v]]))

parseBlockObject(P) ==
  Bind(expect(P, "LBRACE", "UnbalancedBrace"), LAMBDA P1 :
    Bind(IF is(P1, "ANCHOR")
         THEN Advance(recordAnchor([P1 EXCEPT !.currentOffset = 0]))
         ELSE P1,
         LAMBDA P2 :
      LET typeToken == P2.currentToken
      IN  Bind(parseAttributes(expect(P2, "IDENT", "InvalidIdentifier")),
               LAMBDA a :
            Bind(expect(a.p, "RBRACE", "UnbalancedBrace"), LAMBDA P3 :
              [p |-> IF is(P3, "FOCUS")
                     THEN Advance(recordFocus([P3 EXCEPT !.currentOffset = 1]))
                     ELSE P3,
               v |-> [kind |-> "blockObject", type |-> typeToken.value,
                      attrs |-> a.v]]))))

parseNamedBlock(P) ==
  LET typeToken == P.currentToken
      blockType == typeToken.value
  IN  Bind(expect(P, "IDENT", "InvalidIdentifier"), LAMBDA P1 :
        IF Running(P1) /\ is(P1, "BANG")
        \* TYPE! attrs :
        THEN Bind(parseAttributes(Advance(P1)), LAMBDA ra :
               parseRawBlock(expect(ra.p, "COLON", "MissingColonInMark"),
                             blockType, ra.v))
        \* TYPE attrs :
        ELSE Bind(parseAttributes(P1), LAMBDA a :
          Bind(expect(a.p, "COLON", "MissingColonInMark"), LAMBDA P2 :
            IF ~Running(P2) THEN [p |-> P2, v |-> NoToken]
            ELSE IF is(P2, "NEWLINE") \/ is(P2, "EOF")
              THEN parseContainer(skipNewlines(P2), blockType, a.v)
            ELSE IF is(P2, "LBRACE")
              THEN parseInlineContainer(P2, blockType, a.v)
            ELSE IF ~is(P2, "SPACE")
              THEN [p |-> Fail(P2, "MissingSpaceAfterColon",
                               P2.currentToken.line, P2.currentToken.column),
                    v |-> NoToken]
            ELSE Bind(parseTextBlock(Advance(P2), blockType, a.v), LAMBDA t :
                   Bind(skipNewlines(t.p), LAMBDA P3 :
                     [p |-> IF is(t.p, "NEWLINE") /\ is(P3, "INDENT")
                            THEN Fail(P3, "InvalidChildUnderTextBlock",
                                      P3.currentToken.line,
                                      P3.currentToken.column)
                            ELSE P3,
                      v |-> t.v])))))

parseBlock(P) ==
  Bind(IF is(P, "ANCHOR")
       THEN Advance(recordAnchor([P EXCEPT !.currentOffset = 0]))
       ELSE P,
       LAMBDA P1 :
    Bind(IF is(P1, "FOCUS")
         THEN Advance(recordFocus([P1 EXCEPT !.currentOffset = 0]))
         ELSE P1,
         LAMBDA P2 :
      IF is(P2, "LBRACE") THEN parseBlockObject(P2) ELSE parseNamedBlock(P2)))

\* The loop of parseDocument
RECURSIVE DocumentLoop(_, _)
DocumentLoop(P, blocks) ==
  IF ~Running(P) \/ is(P, "EOF") THEN [p |-> P, v |-> blocks]
  ELSE Bind(parseBlock([P EXCEPT !.currentPath = <<Len(blocks)>>]), LAMBDA b :
         DocumentLoop(skipBlockSeparators(b.p), Append(blocks, b.v)))

parseDocument(P) ==
  Bind(DocumentLoop(skipBlockSeparators(P), <<>>), LAMBDA d :
    IF Running(d.p) /\ Len(d.v) = 0
    THEN [p |-> Fail(d.p, "EmptyDocument",
                     d.p.currentToken.line, d.p.currentToken.column),
          v |-> d.v]
    ELSE d)

NullSelection == [anchor |-> NullPoint, focus |-> NullPoint]

\* A selection that takes the two recorded points the other way round
FinalSelectionReversed(recorded) ==
  IF recorded.focus = NullPoint THEN NullSelection
  ELSE [anchor |-> recorded.focus,
        focus  |-> IF recorded.anchor # NullPoint THEN recorded.anchor
                   ELSE recorded.focus]

\* Parser.parse(): the selection of the EditorState it returns
FinalSelection(recorded) ==
  IF recorded.focus = NullPoint THEN NullSelection
  ELSE [anchor |-> IF recorded.anchor # NullPoint THEN recorded.anchor
                   ELSE recorded.focus,
        focus  |-> recorded.focus]

\* parse(input): what the call comes to.  `ok` says that it returned; then
\* blocks and selection are the EditorState, and otherwise err is the
\* ParseError thrown (or DoesNotTerminate).  `recorded` is the parser's
\* SelectionState when the call ended.
parse(input) ==
  Bind(parseDocument(NewParser(input)), LAMBDA d :
    IF Running(d.p)
    THEN [ok |-> TRUE, blocks |-> d.v,
          selection |-> FinalSelection(d.p.selection),
          err |-> NoError, recorded |-> d.p.selection]
    ELSE [ok |-> FALSE, blocks |-> <<>>, selection |-> NullSelection,
          err |-> d.p.err, recorded |-> d.p.selection])


(***************************************************************************)
(* Serializer                                                              *)
(*                                                                         *)
(* A Serializer is the record of its SerializerState.  Every method        *)
(* returns the serializer afterwards (s) and what it emits (out).          *)
(***************************************************************************)
NewSerializer(selection, singleLine) ==
  [ selection     |-> selection,
    currentPath   |-> <<>>,
    currentOffset |-> 0,
    singleLine    |-> singleLine ]

RECURSIVE Join(_, _)
Join(parts, sep) ==
  IF Len(parts) = 0 THEN <<>>
  ELSE IF Len(parts) = 1 THEN parts[1]
  ELSE parts[1] \o sep \o Join(Tail(parts), sep)

\* " ".repeat(n)
Spaces(n) == [i \in 1..n |-> " "]

RECURSIVE DigitsOf(_)
DigitsOf(n) ==
  IF n < 10 THEN <<(<<"0","1","2","3","4","5","6","7","8","9">>)[n + 1]>>
  ELSE Append(DigitsOf(n \div 10),
              (<<"0","1","2","3","4","5","6","7","8","9">>)[(n % 10) + 1])

escapeChar(char) ==
  IF char \in {BS, "[", "]", "{", "}", "|", "^", ";"} THEN <<BS, char>>
  ELSE <<char>>

isCollapsedSelection(S) ==
  IF S.selection = NullSelection THEN TRUE
  ELSE /\ S.selection.anchor.offset = S.selection.focus.offset
       /\ S.selection.anchor.path = S.selection.focus.path

pathEquals(a, b) == a = b

isSelectionAtPath(S, point, offset) ==
  IF point = NullPoint THEN FALSE
  ELSE point.path = S.currentPath /\ point.offset = offset

\* The markers a position takes: `^` unless the selection is collapsed,
\* then `|`, each if its point is at the current path with this offset.
MarkersAt(S, offset) ==
  (IF ~isCollapsedSelection(S) /\ isSelectionAtPath(S, S.selection.anchor, offset)
   THEN <<"^">> ELSE <<>>)
  \o (IF isSelectionAtPath(S, S.selection.focus, offset) THEN <<"|">> ELSE <<>>)

\* ---- attributes ----

\* a.localeCompare(b) < 0 for two keys: the collation key of a character
\* orders punctuation before digits before letters, a letter next to its
\* other case, lower case first.
CollationKey(c) ==
  LET lower == <<"a","b","c","d","e","f","g","h","i","j","k","l","m",
                 "n","o","p","q","r","s","t","u","v","w","x","y","z">>
      upper == <<"A","B","C","D","E","F","G","H","I","J","K","L","M",
                 "N","O","P","Q","R","S","T","U","V","W","X","Y","Z">>
      digit == <<"0","1","2","3","4","5","6","7","8","9">>
  IN  IF c = "_" THEN <<0, 0>>
      ELSE IF c = "-" THEN <<1, 0>>
      ELSE IF c \in Digits THEN <<2 + (CHOOSE i \in 1..10 : digit[i] = c), 0>>
      ELSE IF c \in Lower THEN <<20 + (CHOOSE i \in 1..26 : lower[i] = c), 0>>
      ELSE IF c \in Upper THEN <<20 + (CHOOSE i \in 1..26 : upper[i] = c), 1>>
      ELSE <<99, 0>>

\* The first index at which level k (1: letters, 2: case) tells a from b,
\* 0 if none does.
FirstDiff(a, b, k) ==
  LET n == IF Len(a) < Len(b) THEN Len(a) ELSE Len(b)
      D == {i \in 1..n : CollationKey(a[i])[k] # CollationKey(b[i])[k]}
  IN  IF D = {} THEN 0 ELSE CHOOSE i \in D : \A j \in D : i <= j

localeLess(a, b) ==
  Bind(FirstDiff(a, b, 1), LAMBDA p :
    IF p # 0 THEN CollationKey(a[p])[1] < CollationKey(b[p])[1]
    ELSE IF Len(a) # Len(b) THEN Len(a) < Len(b)
    ELSE Bind(FirstDiff(a, b, 2), LAMBDA t :
           IF t # 0 THEN CollationKey(a[t])[2] < CollationKey(b[t])[2]
           ELSE FALSE))

\* entries.sort(([a], [b]) => a.localeCompare(b)): insertion of each entry
\* behind the entries that do not come after it (the sort is stable).
RECURSIVE SortEntries(_, _, _)
SortEntries(entries, i, sorted) ==
  IF i > Len(entries) THEN sorted
  ELSE LET e == entries[i]
           k == Cardinality({j \in 1..Len(sorted) : ~localeLess(e[1], sorted[j][1])})
       IN  SortEntries(entries, i + 1,
                       SubSeq(sorted, 1, k) \o <<e>> \o SubSeq(sorted, k + 1, Len(sorted)))

RECURSIVE EscapeString(_, _)
EscapeString(value, i) ==
  IF i > Len(value) THEN <<>>
  ELSE (CASE value[i] = BS -> <<BS, BS>>
          [] value[i] = QUOTE -> <<BS, QUOTE>>
          [] value[i] = NL -> <<BS, "n">>
          [] value[i] = TAB -> <<BS, "t">>
          [] value[i] = CR -> <<BS, "r">>
          [] OTHER -> <<value[i]>>)
       \o EscapeString(value, i + 1)

serializeAttributeValue(value) ==
  CASE value.t = "json" -> value.v
    [] value.t = "string" -> <<QUOTE>> \o EscapeString(value.v, 1) \o <<QUOTE>>
    [] value.t = "number" -> DigitsOf(value.v)
    [] value.t = "boolean" ->
         IF value.v THEN <<"t","r","u","e">> ELSE <<"f","a","l","s","e">>

serializeAttributes(attrs) ==
  Bind(SortEntries(attrs, 1, <<>>), LAMBDA entries :
    Join([i \in 1..Len(entries) |->
            entries[i][1] \o <<"=">> \o serializeAttributeValue(entries[i][2])],
         <<" ">>))

\* ` ${attrs}` when there are attributes
attrsStr(attrs) ==
  IF Len(attrs) = 0 THEN <<>> ELSE <<" ">> \o serializeAttributes(attrs)


\* ---- inline content ----

\* The loop of serializeText from index i (0-based) on
RECURSIVE TextFrom(_, _, _)
TextFrom(S, text, i) ==
  MarkersAt(S, i)
  \o (IF i < Len(text) THEN escapeChar(text[i + 1]) \o TextFrom(S, text, i + 1)
      ELSE <<>>)

serializeText(S, node) ==
  [s |-> [S EXCEPT !.currentOffset = @ + Len(node.text)],
   out |-> TextFrom(S, node.text, 0)]

serializeInlineObject(S, obj) ==
  LET result == <<"{">> \o obj.type \o attrsStr(obj.attrs) \o <<"}">>
      collapsed == isCollapsedSelection(S)
  IN  [s |-> S,
       out |-> (IF isSelectionAtPath(S, S.selection.focus, 0)
                THEN <<"|">> ELSE <<>>)
               \o (IF ~collapsed /\ isSelectionAtPath(S, S.selection.anchor, 0)
                   THEN <<"^">> ELSE <<>>)
               \o result
               \o (IF ~collapsed /\ isSelectionAtPath(S, S.selection.anchor, 1)
                   THEN <<"^">> ELSE <<>>)
               \o (IF isSelectionAtPath(S, S.selection.focus, 1)
                   THEN <<"|">> ELSE <<>>)]

RECURSIVE serializeInlineContent(_, _)
RECURSIVE InlineNodesFrom(_, _, _, _)

serializeMark(S, mark) ==
  LET prefix == IF mark.mode = "annotation" THEN <<"@">>
                ELSE IF mark.mode = "overlay" THEN <<"~">> ELSE <<>>
  IN  Bind(serializeInlineContent(S, mark.children), LAMBDA content :
        [s |-> content.s,
         out |-> <<"[">> \o prefix \o mark.type \o attrsStr(mark.attrs)
                 \o <<":">> \o content.out \o <<"]">>])

serializeInlineNode(S, node) ==
  CASE node.kind = "text" -> serializeText(S, node)
    [] node.kind = "mark" -> serializeMark(S, node)
    [] node.kind = "inlineObject" -> serializeInlineObject(S, node)

\* The for loop of serializeInlineContent from child i (1-based) on
InlineNodesFrom(S, nodes, i, basePath) ==
  IF i > Len(nodes) THEN [s |-> S, out |-> <<>>]
  ELSE Bind(serializeInlineNode([S EXCEPT !.currentPath = Append(basePath, i - 1)],
                                nodes[i]),
            LAMBDA n :
         Bind(InlineNodesFrom(n.s, nodes, i + 1, basePath), LAMBDA rest :
           [s |-> rest.s, out |-> n.out \o rest.out]))

serializeInlineContent(S0, nodes) ==
  LET S == [S0 EXCEPT !.currentOffset = 0]
      basePath == S.currentPath
  IN  Bind(InlineNodesFrom(S, nodes, 1, basePath), LAMBDA body :
        LET atEnd == [body.s EXCEPT !.currentPath = Append(basePath, Len(nodes))]
        IN  [s |-> [atEnd EXCEPT !.currentPath = basePath],
             out |-> body.out \o MarkersAt(atEnd, 0)])

\* ---- blocks ----

escapeCodeLine(line) ==
  LET esc == [i \in 1..Len(line) |->
                IF line[i] \in {"|", "^"} THEN <<BS, line[i]>> ELSE <<line[i]>>]
  IN  IF Len(line) = 0 THEN <<>> ELSE Join(esc, <<>>)

\* The loop of insertSelectionInCodeLine from index i (0-based) on
RECURSIVE CodeLineFrom(_, _, _, _)
CodeLineFrom(S, line, path, i) ==
  (IF ~isCollapsedSelection(S) /\ S.selection.anchor # NullPoint
      /\ pathEquals(S.selection.anchor.path, path) /\ S.selection.anchor.offset = i
   THEN <<"^">> ELSE <<>>)
  \o (IF S.selection.focus # NullPoint
         /\ pathEquals(S.selection.focus.path, path) /\ S.selection.focus.offset = i
      THEN <<"|">> ELSE <<>>)
  \o (IF i < Len(line) THEN <<line[i + 1]>> \o CodeLineFrom(S, line, path, i + 1)
      ELSE <<>>)

insertSelectionInCodeLine(S, line, lineIndex) ==
  CodeLineFrom(S, line, Append(S.currentPath, lineIndex), 0)

serializeTextBlock(S, block, prefix) ==
  Bind(serializeInlineContent(S, block.children), LAMBDA content :
    [s |-> content.s,
     out |-> <<prefix \o block.type \o attrsStr(block.attrs) \o <<":", " ">>
               \o content.out>>])

serializeRawBlock(S, block, prefix, indent) ==
  LET contentPrefix == Spaces(2 * (indent + 1))
  IN  [s |-> S,
       out |-> <<prefix \o block.type \o <<"!">> \o attrsStr(block.attrs) \o <<":">>>>
               \o [i \in 1..Len(block.lines) |->
                     contentPrefix
                     \o insertSelectionInCodeLine(S, escapeCodeLine(block.lines[i]),
                                                  i - 1)]]

serializeBlockObject(S, block, prefix) ==
  LET result == <<"{">> \o block.type \o attrsStr(block.attrs) \o <<"}">>
      collapsed == isCollapsedSelection(S)
  IN  [s |-> S,
       out |-> <<prefix
                 \o (IF isSelectionAtPath(S, S.selection.focus, 0)
                     THEN <<"|">> ELSE <<>>)
                 \o (IF ~collapsed /\ isSelectionAtPath(S, S.selection.anchor, 0)
                     THEN <<"^">> ELSE <<>>)
                 \o result
                 \o (IF ~collapsed /\ isSelectionAtPath(S, S.selection.anchor, 1)
                     THEN <<"^">> ELSE <<>>)
                 \o (IF isSelectionAtPath(S, S.selection.focus, 1)
                     THEN <<"|">> ELSE <<>>)>>]

RECURSIVE serializeBlock(_, _, _)
RECURSIVE ContainerFrom(_, _, _, _, _)

\* The for loop of serializeContainer from child i (1-based) on
ContainerFrom(S, children, i, basePath, indent) ==
  IF i > Len(children) THEN [s |-> S, out |-> <<>>]
  ELSE Bind(serializeBlock([S EXCEPT !.currentPath = Append(basePath, i - 1)],
                           children[i], indent + 1),
            LAMBDA c :
         Bind(ContainerFrom(c.s, children, i + 1, basePath, indent), LAMBDA rest :
           [s |-> rest.s, out |-> c.out \o rest.out]))

\* A serializeContainer that leaves the current path at the last child
serializeContainerNoRestore(S, block, prefix, indent) ==
  LET basePath == S.currentPath
  IN  Bind(ContainerFrom(S, block.children, 1, basePath, indent), LAMBDA body :
        [s |-> body.s,
         out |-> <<prefix \o block.type \o attrsStr(block.attrs) \o <<":">>>>
                 \o body.out])

serializeContainer(S, block, prefix, indent) ==
  LET basePath == S.currentPath
  IN  Bind(ContainerFrom(S, block.children, 1, basePath, indent), LAMBDA body :
        [s |-> [body.s EXCEPT !.currentPath = basePath],
         out |-> <<prefix \o block.type \o attrsStr(block.attrs) \o <<":">>>>
                 \o body.out])

\* serializeBlock: out is the array of lines
serializeBlock(S, block, indent) ==
  LET prefix == Spaces(2 * indent)
  IN  CASE block.kind = "textBlock" -> serializeTextBlock(S, block, prefix)
        [] block.kind = "containerBlock" -> serializeContainer(S, block, prefix, indent)
        [] block.kind = "rawBlock" -> serializeRawBlock(S, block, prefix, indent)
        [] block.kind = "blockObject" -> serializeBlockObject(S, block, prefix)

\* ---- single-line form ----

serializeTextBlockSingleLine(S, block) ==
  Bind(serializeInlineContent(S, block.children), LAMBDA content :
    [s |-> content.s,
     out |-> block.type \o attrsStr(block.attrs) \o <<":", " ">> \o content.out])

RECURSIVE serializeBlockSingleLine(_, _)
RECURSIVE ContainerSingleLineFrom(_, _, _, _)

\* The for loop of serializeContainerSingleLine: out is the array childParts
ContainerSingleLineFrom(S, children, i, basePath) ==
  IF i > Len(children) THEN [s |-> S, out |-> <<>>]
  ELSE Bind(serializeBlockSingleLine(
              [S EXCEPT !.currentPath = Append(basePath, i - 1)], children[i]),
            LAMBDA c :
         Bind(ContainerSingleLineFrom(c.s, children, i + 1, basePath),
              LAMBDA rest :
           [s |-> rest.s, out |-> <<c.out>> \o rest.out]))

serializeContainerSingleLine(S, block) ==
  LET basePath == S.currentPath
  IN  Bind(ContainerSingleLineFrom(S, block.children, 1, basePath), LAMBDA body :
        [s |-> [body.s EXCEPT !.currentPath = basePath],
         out |-> block.type \o attrsStr(block.attrs) \o <<":", "{">>
                 \o Join(body.out, <<";", ";">>) \o <<"}">>])

serializeBlockSingleLine(S, block) ==
  CASE block.kind = "textBlock" -> serializeTextBlockSingleLine(S, block)
    [] block.kind = "containerBlock" -> serializeContainerSingleLine(S, block)
    [] block.kind = "rawBlock" ->
         Bind(serializeBlock(S, block, 0), LAMBDA r :
           [s |-> r.s, out |-> Join(r.out, <<NL>>)])
    [] block.kind = "blockObject" ->
         Bind(serializeBlockObject(S, block, <<>>), LAMBDA r :
           [s |-> r.s, out |-> r.out[1]])

\* The for loop of serializeSingleLine from block i (1-based) on
RECURSIVE SingleLineFrom(_, _, _)
SingleLineFrom(S, blocks, i) ==
  IF i > Len(blocks) THEN [s |-> S, out |-> <<>>]
  ELSE Bind(serializeBlockSingleLine([S EXCEPT !.currentPath = <<i - 1>>],
                                     blocks[i]),
            LAMBDA b :
         Bind(SingleLineFrom(b.s, blocks, i + 1), LAMBDA rest :
           [s |-> rest.s, out |-> <<b.out>> \o rest.out]))

serializeSingleLine(S, blocks) ==
  Bind(SingleLineFrom(S, blocks, 1), LAMBDA r :
    [s |-> r.s, out |-> Join(r.out, <<";", ";">>)])

\* The for loop of Serializer.serialize from block i (1-based) on
RECURSIVE BlocksFrom(_, _, _)
BlocksFrom(S, blocks, i) ==
  IF i > Len(blocks) THEN [s |-> S, out |-> <<>>]
  ELSE Bind(serializeBlock([S EXCEPT !.currentPath = <<i - 1>>], blocks[i], 0),
            LAMBDA b :
         Bind(BlocksFrom(b.s, blocks, i + 1), LAMBDA rest :
           [s |-> rest.s, out |-> b.out \o rest.out]))

\* Serializer.serialize(editorState)
SerializerSerialize(S, blocks) ==
  IF S.singleLine THEN serializeSingleLine(S, blocks)
  ELSE Bind(BlocksFrom(S, blocks, 1), LAMBDA r :
         [s |-> r.s, out |-> Join(r.out, <<NL>>)])

\* serialize(editorState, options): the string
serialize(blocks, selection, singleLine) ==
  SerializerSerialize(NewSerializer(selection, singleLine), blocks).out


(***************************************************************************)
(* Matcher: getRange and what it calls.  A Selection | null is a           *)
(* selection, NullSelection standing for null; a Point | null is a point,  *)
(* NullPoint standing for null.                                            *)
(***************************************************************************)
\* text.lastIndexOf(patternText): the index of the last occurrence, or -1
lastIndexOf(text, patternText) ==
  LET found == {k \in 0..(Len(text) - Len(patternText)) :
                  SubSeq(text, k + 1, k + Len(patternText)) = patternText}
  IN  IF found = {} THEN -1
      ELSE CHOOSE k \in found : \A j \in found : j <= k

\* text.indexOf(patternText): the 0-based index of the first occurrence, or -1
indexOf(text, patternText) ==
  LET found == {k \in 0..(Len(text) - Len(patternText)) :
                  SubSeq(text, k + 1, k + Len(patternText)) = patternText}
  IN  IF found = {} THEN -1
      ELSE CHOOSE k \in found : \A j \in found : k <= j

startsWith(text, prefix) ==
  Len(prefix) <= Len(text) /\ SubSeq(text, 1, Len(prefix)) = prefix

endsWith(text, suffix) ==
  Len(suffix) <= Len(text)
    /\ SubSeq(text, Len(text) - Len(suffix) + 1, Len(text)) = suffix

\* extractText(nodes): the text of the Text nodes, those inside marks
\* included, inline objects passed over
RECURSIVE extractText(_)
extractText(nodes) ==
  IF Len(nodes) = 0 THEN <<>>
  ELSE (IF nodes[1].kind = "text" THEN nodes[1].text
        ELSE IF nodes[1].kind = "mark" THEN extractText(nodes[1].children)
        ELSE <<>>) \o extractText(Tail(nodes))

isSingleTextPattern(nodes) == Len(nodes) = 1 /\ nodes[1].kind = "text"

\* docAttrs[key]: the value of the key, or undefined
Undefined == [t |-> "undefined", v |-> <<>>]

AttrValue(attrs, key) ==
  IF \E i \in 1..Len(attrs) : attrs[i][1] = key
  THEN attrs[CHOOSE i \in 1..Len(attrs) : attrs[i][1] = key][2]
  ELSE Undefined

\* deepEqual(a, b).  A value is the record of its type and its content, so
\* primitives are equal when both agree; a decoded array or object is kept
\* as its source without white space, and two of them are compared as that.
deepEqual(a, b) == a = b

\* The same keys with the same values on both sides
attrsEqual(docAttrs, patternAttrs) ==
  {docAttrs[i] : i \in 1..Len(docAttrs)}
    = {patternAttrs[i] : i \in 1..Len(patternAttrs)}

\* attrsMatch(docAttrs, patternAttrs); an absent attrs is the empty list
attrsMatch(docAttrs, patternAttrs) ==
  IF Len(patternAttrs) = 0 THEN TRUE
  ELSE IF Len(docAttrs) = 0 THEN FALSE
  ELSE \A i \in 1..Len(patternAttrs) :
         deepEqual(AttrValue(docAttrs, patternAttrs[i][1]), patternAttrs[i][2])

childrenMatchAsPrefix(docChildren, patternChildren) ==
  startsWith(extractText(docChildren), extractText(patternChildren))

matchesMark(docMark, patternMark) ==
  /\ docMark.type = patternMark.type
  /\ docMark.mode = patternMark.mode
  /\ attrsMatch(docMark.attrs, patternMark.attrs)
  /\ childrenMatchAsPrefix(docMark.children, patternMark.children)

matchesInlineObject(docObj, patternObj) ==
  /\ docObj.type = patternObj.type
  /\ attrsMatch(docObj.attrs, patternObj.attrs)

\* Positions at the mark itself, whatever stands in front of it
computeMarkMatchPositionsAtMark(siblings, matchIndex, basePath) ==
  [anchor |-> Point(Append(basePath, matchIndex), 0),
   focus  |-> Point(Append(basePath, matchIndex + 1), 0)]

computeMarkMatchPositions(siblings, matchIndex, basePath) ==
  [anchor |->
     IF matchIndex > 0 /\ siblings[matchIndex].kind = "text"
     THEN Point(Append(basePath, matchIndex - 1), Len(siblings[matchIndex].text))
     ELSE Point(Append(basePath, matchIndex), 0),
   focus |->
     IF matchIndex < Len(siblings) - 1
     THEN Point(Append(basePath, matchIndex + 1), 0)
     ELSE Point(Append(basePath, Len(siblings)), 0)]

computeInlineObjectMatchPositions(matchIndex, basePath) ==
  [anchor |-> Point(Append(basePath, matchIndex), 0),
   focus  |-> Point(Append(basePath, matchIndex), 1)]

\* The for loop of searchInChildren, from child i (0-based) on
RECURSIVE SearchLoop(_, _, _, _)
SearchLoop(children, patternNodes, basePath, i) ==
  IF i >= Len(children) THEN NullSelection
  ELSE
    LET child == children[i + 1]
        currentPath == Append(basePath, i)
        firstPatternNode == patternNodes[1]
    IN  IF isSingleTextPattern(patternNodes)
        THEN IF child.kind = "text"
                  /\ indexOf(child.text, firstPatternNode.text) >= 0
             THEN Bind(indexOf(child.text, firstPatternNode.text), LAMBDA idx :
                    [anchor |-> Point(currentPath, idx),
                     focus  |-> Point(currentPath,
                                      idx + Len(firstPatternNode.text))])
             ELSE IF child.kind = "mark"
             THEN Bind(SearchLoop(child.children, patternNodes, currentPath, 0),
                       LAMBDA result :
                    IF result # NullSelection THEN result
                    ELSE SearchLoop(children, patternNodes, basePath, i + 1))
             ELSE SearchLoop(children, patternNodes, basePath, i + 1)
        ELSE IF firstPatternNode.kind = "mark" /\ child.kind = "mark"
                  /\ matchesMark(child, firstPatternNode)
             THEN computeMarkMatchPositions(children, i, basePath)
             ELSE IF firstPatternNode.kind = "inlineObject"
                     /\ child.kind = "inlineObject"
                     /\ matchesInlineObject(child, firstPatternNode)
             THEN computeInlineObjectMatchPositions(i, basePath)
             ELSE IF child.kind = "mark"
             THEN Bind(SearchLoop(child.children, patternNodes, currentPath, 0),
                       LAMBDA result :
                    IF result # NullSelection THEN result
                    ELSE SearchLoop(children, patternNodes, basePath, i + 1))
             ELSE SearchLoop(children, patternNodes, basePath, i + 1)

searchInChildren(children, patternNodes, basePath) ==
  SearchLoop(children, patternNodes, basePath, 0)

\* The for loop of findSingleBlockPattern, from block blockIndex on
RECURSIVE SingleBlockLoop(_, _, _)
SingleBlockLoop(blocks, patternNodes, blockIndex) ==
  IF blockIndex >= Len(blocks) THEN NullSelection
  ELSE IF blocks[blockIndex + 1].kind # "textBlock"
    THEN SingleBlockLoop(blocks, patternNodes, blockIndex + 1)
  ELSE Bind(searchInChildren(blocks[blockIndex + 1].children, patternNodes,
                             <<blockIndex>>),
            LAMBDA result :
         IF result # NullSelection THEN result
         ELSE SingleBlockLoop(blocks, patternNodes, blockIndex + 1))

\* A search that begins at the last block and goes back to the first
RECURSIVE SingleBlockLoopDown(_, _, _)
SingleBlockLoopDown(blocks, patternNodes, blockIndex) ==
  IF blockIndex < 0 THEN NullSelection
  ELSE IF blocks[blockIndex + 1].kind # "textBlock"
    THEN SingleBlockLoopDown(blocks, patternNodes, blockIndex - 1)
  ELSE Bind(searchInChildren(blocks[blockIndex + 1].children, patternNodes,
                             <<blockIndex>>),
            LAMBDA result :
         IF result # NullSelection THEN result
         ELSE SingleBlockLoopDown(blocks, patternNodes, blockIndex - 1))

findSingleBlockPatternFromEnd(blocks, patternBlock) ==
  IF patternBlock.kind # "textBlock" THEN NullSelection
  ELSE IF Len(patternBlock.children) = 0 THEN NullSelection
  ELSE SingleBlockLoopDown(blocks, patternBlock.children, Len(blocks) - 1)

findSingleBlockPattern(blocks, patternBlock) ==
  IF patternBlock.kind # "textBlock" THEN NullSelection
  ELSE IF Len(patternBlock.children) = 0 THEN NullSelection
  ELSE SingleBlockLoop(blocks, patternBlock.children, 0)

\* search(nodes, path) of findTextOffsetInBlock, from node i on: the point
\* found (or NullPoint) and currentOffset afterwards
RECURSIVE OffsetSearch(_, _, _, _, _)
OffsetSearch(nodes, path, i, currentOffset, targetOffset) ==
  IF i >= Len(nodes) THEN [point |-> NullPoint, offset |-> currentOffset]
  ELSE
    LET node == nodes[i + 1]
        nodePath == Append(path, i)
    IN  IF node.kind = "text"
        THEN IF currentOffset + Len(node.text) >= targetOffset
             THEN [point |-> Point(nodePath, targetOffset - currentOffset),
                   offset |-> currentOffset]
             ELSE OffsetSearch(nodes, path, i + 1,
                               currentOffset + Len(node.text), targetOffset)
        ELSE IF node.kind = "mark"
        THEN Bind(OffsetSearch(node.children, nodePath, 0, currentOffset,
                               targetOffset),
                  LAMBDA result :
               IF result.point # NullPoint THEN result
               ELSE OffsetSearch(nodes, path, i + 1, result.offset,
                                 targetOffset))
        ELSE OffsetSearch(nodes, path, i + 1, currentOffset, targetOffset)

findTextOffsetInBlock(block, targetOffset, basePath) ==
  OffsetSearch(block.children, basePath, 0, 0, targetOffset).point

blocksMatch(docBlock, patternBlock) ==
  /\ docBlock.kind = patternBlock.kind
  /\ docBlock.kind = "textBlock"
  /\ extractText(docBlock.children) = extractText(patternBlock.children)

\* The for loop of findMultiBlockPattern, from block startIdx on
RECURSIVE MultiBlockLoop(_, _, _)
MultiBlockLoop(blocks, patternBlocks, startIdx) ==
  IF startIdx >= Len(blocks) THEN NullSelection
  ELSE
    LET startBlock == blocks[startIdx + 1]
        firstPatternText == extractText(patternBlocks[1].children)
        lastPatternText ==
          extractText(patternBlocks[Len(patternBlocks)].children)
        endIdx == startIdx + Len(patternBlocks) - 1
        endBlock == blocks[endIdx + 1]
    IN  IF startBlock.kind # "textBlock"
          THEN MultiBlockLoop(blocks, patternBlocks, startIdx + 1)
        ELSE IF ~endsWith(extractText(startBlock.children), firstPatternText)
          THEN MultiBlockLoop(blocks, patternBlocks, startIdx + 1)
        ELSE IF endIdx >= Len(blocks)
          THEN MultiBlockLoop(blocks, patternBlocks, startIdx + 1)
        ELSE IF endBlock.kind # "textBlock"
          THEN MultiBlockLoop(blocks, patternBlocks, startIdx + 1)
        ELSE IF ~startsWith(extractText(endBlock.children), lastPatternText)
          THEN MultiBlockLoop(blocks, patternBlocks, startIdx + 1)
        ELSE IF \E i \in 1..(Len(patternBlocks) - 2) :
                  ~blocksMatch(blocks[startIdx + i + 1], patternBlocks[i + 1])
          THEN MultiBlockLoop(blocks, patternBlocks, startIdx + 1)
        ELSE
          Bind(findTextOffsetInBlock(
                 startBlock,
                 Len(extractText(startBlock.children)) - Len(firstPatternText),
                 <<startIdx>>),
               LAMBDA anchorPoint :
            Bind(findTextOffsetInBlock(endBlock, Len(lastPatternText),
                                       <<endIdx>>),
                 LAMBDA focusPoint :
              IF anchorPoint # NullPoint /\ focusPoint # NullPoint
              THEN [anchor |-> anchorPoint, focus |-> focusPoint]
              ELSE MultiBlockLoop(blocks, patternBlocks, startIdx + 1)))

findMultiBlockPattern(blocks, patternBlocks) ==
  IF patternBlocks[1].kind # "textBlock"
       \/ patternBlocks[Len(patternBlocks)].kind # "textBlock"
  THEN NullSelection
  ELSE MultiBlockLoop(blocks, patternBlocks, 0)

\* String.prototype.trim
WhiteSpace == {" ", NL, TAB, CR}

RECURSIVE trim(_)
trim(s) ==
  IF Len(s) = 0 THEN s
  ELSE IF s[1] \in WhiteSpace THEN trim(Tail(s))
  ELSE IF s[Len(s)] \in WhiteSpace THEN trim(SubSeq(s, 1, Len(s) - 1))
  ELSE s

\* The first index from i on whose character is not in the class
RECURSIVE SkipClass(_, _, _)
SkipClass(s, i, class) ==
  IF i <= Len(s) /\ s[i] \in class THEN SkipClass(s, i + 1, class) ELSE i

\* /^[A-Z][A-Z0-9]*\s*(!)?:/.test(trimmed)
StartsWithBlockType(trimmed) ==
  /\ CharAt(trimmed, 1) \in Upper
  /\ Bind(SkipClass(trimmed,
                    SkipClass(trimmed, 2, Upper \cup Digits), WhiteSpace),
          LAMBDA k :
       CharAt(trimmed, IF CharAt(trimmed, k) = "!" THEN k + 1 ELSE k) = ":")

looksLikeNotation(str) ==
  Bind(trim(str), LAMBDA trimmed :
    \/ StartsWithBlockType(trimmed)
    \/ /\ CharAt(trimmed, 1) = "{"
       /\ CharAt(trimmed, 2) \in Upper
       /\ \A i \in 1..Len(trimmed) : trimmed[i] # ":")

parsePattern(patternStr) ==
  parse(IF looksLikeNotation(patternStr) THEN patternStr
        ELSE <<"P", ":", " ">> \o patternStr)

\* getRange(document, patternStr): the Selection | null returned, or the
\* ParseError that parsing the pattern threw
getRange(document, patternStr) ==
  Bind(parsePattern(patternStr), LAMBDA pat :
    IF ~pat.ok THEN [range |-> NullSelection, err |-> pat.err]
    ELSE IF Len(pat.blocks) = 0 THEN [range |-> NullSelection, err |-> NoError]
    ELSE IF Len(pat.blocks) = 1
      THEN [range |-> findSingleBlockPattern(document.blocks, pat.blocks[1]),
            err |-> NoError]
    ELSE [range |-> findMultiBlockPattern(document.blocks, pat.blocks),
          err |-> NoError])

\* getPointBefore(document, patternStr): range?.anchor ?? null
getPointBefore(document, patternStr) ==
  Bind(getRange(document, patternStr), LAMBDA r :
    [point |-> r.range.anchor, err |-> r.err])

\* getPointAfter(document, patternStr): range?.focus ?? null
getPointAfter(document, patternStr) ==
  Bind(getRange(document, patternStr), LAMBDA r :
    [point |-> r.range.focus, err |-> r.err])

(***************************************************************************)
(* Inputs                                                                  *)
(***************************************************************************)
\* The number of inline pieces after `P: ` in a one-block document
MaxInline == 4

\* The number of lines of a document made of lines
MaxLines == 3

InlinePieces ==
  { <<"a">>, <<"|">>, <<"^">>, <<"[", "b", ":">>, <<"]">>, <<"{", "e", "}">>,
    <<BS, BS>> }

RECURSIVE PieceSeqs(_, _)
\* The concatenations of at most n pieces
PieceSeqs(pieces, n) ==
  IF n = 0 THEN {<<>>}
  ELSE LET shorter == PieceSeqs(pieces, n - 1)
       IN  shorter \cup {s \o q : s \in shorter, q \in pieces}

InlineDocuments == {<<"P", ":", " ">> \o s : s \in PieceSeqs(InlinePieces, MaxInline)}

LineBodies ==
  { <<"P", ":", " ", "a">>, <<"P", ":", " ", "a", "|">>, <<"U", ":">>,
    <<"C", "!", ":">>, <<"x", "|">>, <<"{", "I", "}">> }

\* Lines at the first column, lines one level in, and the lines two levels
\* in that end a nest of containers or stand in a nested raw block
Lines ==
  (LineBodies \ {<<"x", "|">>})
  \cup {Spaces(2) \o b : b \in LineBodies \ {<<"P", ":", " ", "a">>}}
  \cup {Spaces(4) \o b : b \in {<<"P", ":", " ", "a">>, <<"x", "|">>}}

RECURSIVE LineSeqs(_)
\* The documents of at least one and at most n lines
LineSeqs(n) ==
  IF n = 1 THEN Lines
  ELSE LET shorter == LineSeqs(n - 1)
       IN  shorter \cup {s \o <<NL>> \o l : s \in shorter, l \in Lines}

LineDocuments == LineSeqs(MaxLines)

\* The number of pieces of the one line of a raw block
MaxRaw == 3

RawPieces == { <<BS>>, <<"|">>, <<"^">>, <<"n">> }

RawHead == <<"C", "!", ":", NL, " ", " ">>

\* A raw block of one line
RawDocuments ==
  {RawHead \o s : s \in PieceSeqs(RawPieces, MaxRaw) \ {<<>>}}

\* The number of pieces of a document of block objects
MaxObject == 3

ObjectPieces == { <<"{", "I", "}">>, <<"|">>, <<"^">>, <<NL>> }

\* Block objects with markers around them
ObjectDocuments == PieceSeqs(ObjectPieces, MaxObject) \ {<<>>}

\* The number of attributes of the block object of a document
MaxAttrs == 2

AttrPieces ==
  { <<" ", "a", "=", "1">>, <<" ", "B", "=", "1">>, <<" ", "b", "=", "2">> }

\* A block object with attributes
AttrDocuments ==
  {<<"{", "I">> \o s \o <<"}">> : s \in PieceSeqs(AttrPieces, MaxAttrs)}

\* The number of pieces inside the braces of a container on one line
MaxBraces == 3

BracePieces ==
  { <<"U", ":", "{">>, <<"}">>, <<"P", ":", " ", "a">>, <<";", ";">>,
    <<"{", "I", "}">> }

\* Containers in the form TYPE:{...}
BraceDocuments ==
  {<<"U", ":", "{">> \o s : s \in PieceSeqs(BracePieces, MaxBraces) \ {<<>>}}

Documents ==
  InlineDocuments \cup LineDocuments \cup RawDocuments \cup ObjectDocuments
  \cup AttrDocuments \cup BraceDocuments

\* The number of inline pieces after `P: ` in a document that is searched
MaxMatch == 3

MatchPieces ==
  { <<"a">>, <<"b">>, <<"[", "b", ":">>, <<"]">>, <<"{", "e", "}">> }

\* One text block of text, marks and inline objects
InlineMatchDocuments ==
  {<<"P", ":", " ">> \o s : s \in PieceSeqs(MatchPieces, MaxMatch) \ {<<>>}}

\* The number of blocks of a document of several blocks that is searched
MaxBlocks == 3

BlockBodies ==
  { <<"P", ":", " ">>, <<"P", ":", " ", "a">>,
    <<"P", ":", " ", "a", "[", "b", ":", "b", "]">>, <<"{", "I", "}">> }

RECURSIVE BlockSeqs(_)
\* The documents of at least one and at most n blocks, `;;` between them
BlockSeqs(n) ==
  IF n = 1 THEN BlockBodies
  ELSE LET shorter == BlockSeqs(n - 1)
       IN  shorter \cup {s \o <<";", ";">> \o b : s \in shorter, b \in BlockBodies}

BlockMatchDocuments == BlockSeqs(MaxBlocks)

\* The attributes of a mark or an inline object, in a document and in a
\* pattern
AttrLists ==
  { <<>>, <<" ", "k", "=", "1">>, <<" ", "k", "=", "2">>,
    <<" ", "j", "=", "1">>, <<" ", "k", "=", "1", " ", "j", "=", "1">>,
    <<" ", "j", "=", "1", " ", "k", "=", "1">>,
    <<" ", "k", "=", QUOTE, "1", QUOTE>>,
    <<" ", "k", "=", "[", "1", "]">> }

MarkWithAttrs == {<<"[", "b">> \o a \o <<":", "a", "]">> : a \in AttrLists}

ObjectWithAttrs == {<<"{", "e">> \o a \o <<"}">> : a \in AttrLists}

\* One text block whose one child is a mark or an inline object
AttrMatchDocuments ==
  {<<"P", ":", " ">> \o n : n \in MarkWithAttrs \cup ObjectWithAttrs}

\* Text that is not in a top-level text block, and marks inside marks
NestedMatchDocuments ==
  { <<"U", ":", NL, " ", " ", "P", ":", " ", "a", "b">>,
    <<"C", "!", ":", NL, " ", " ", "a", "b">>,
    <<"P", ":", " ", "[", "c", ":", "a", "[", "b", ":", "a", "]", "b", "]">>,
    <<"P", ":", " ", "[", "b", ":", "[", "b", ":", "a", "]", "]">>,
    <<"P", ":", " ", "[", "c", ":", "[", "b", ":", "a", "]", "]">> }

MatchDocuments ==
  InlineMatchDocuments \cup BlockMatchDocuments \cup AttrMatchDocuments
  \cup NestedMatchDocuments

\* Patterns of plain text
TextPatterns ==
  { <<>>, <<"a">>, <<"b">>, <<"a", "b">>, <<"b", "a">> }

\* Patterns with a mark or an inline object
NodePatterns ==
  { <<"[", "b", ":", "]">>, <<"[", "b", ":", "a", "]">>,
    <<"[", "b", ":", "b", "]">>, <<"[", "@", "b", ":", "a", "]">>,
    <<"[", "c", ":", "a", "]">>, <<"{", "e", "}">>, <<"{", "f", "}">>,
    <<"a", "[", "b", ":", "a", "]">>,
    <<"P", ":", " ", "[", "b", ":", "a", "]">> }

\* Patterns of several blocks: the text the match begins with, the blocks in
\* the middle, the block the match ends with
FirstPatternBlocks ==
  { <<>>, <<"b">>, <<"a", "b">>, <<"P", ":", " ", "b">> }

MiddlePatternBlocks ==
  { <<"P", ":", " ">>, <<"P", ":", " ", "a", "[", "b", ":", "b", "]">> }

LastPatternBlocks ==
  { <<"P", ":", " ">>, <<"P", ":", " ", "a">>, <<"P", ":", " ", "a", "b">> }

BlockPatterns ==
  {f \o <<";", ";">> \o l : f \in FirstPatternBlocks, l \in LastPatternBlocks}
  \cup {f \o <<";", ";">> \o m \o <<";", ";">> \o l :
          f \in FirstPatternBlocks, m \in MiddlePatternBlocks,
          l \in LastPatternBlocks}

\* Patterns that do not parse
BrokenPatterns ==
  { <<"[", "b", ":", "a">> }

Patterns ==
  TextPatterns \cup NodePatterns \cup BlockPatterns \cup MarkWithAttrs
  \cup ObjectWithAttrs \cup BrokenPatterns

(***************************************************************************)
(* toEqual: structural equality of two parse results.  The attributes of   *)
(* a node are compared as a mapping, whatever the order of their keys.     *)
(***************************************************************************)
AttrMap(attrs) == {attrs[i] : i \in 1..Len(attrs)}

RECURSIVE CanonInline(_)
CanonInline(nodes) ==
  [i \in 1..Len(nodes) |->
     CASE nodes[i].kind = "text" -> nodes[i]
       [] nodes[i].kind = "inlineObject" ->
            [nodes[i] EXCEPT !.attrs = AttrMap(@)]
       [] nodes[i].kind = "mark" ->
            [kind |-> "mark", type |-> nodes[i].type, mode |-> nodes[i].mode,
             attrs |-> AttrMap(nodes[i].attrs),
             children |-> CanonInline(nodes[i].children)]]

RECURSIVE CanonBlocks(_)
CanonBlocks(blocks) ==
  [i \in 1..Len(blocks) |->
     CASE blocks[i].kind = "textBlock" ->
            [kind |-> "textBlock", type |-> blocks[i].type,
             attrs |-> AttrMap(blocks[i].attrs),
             children |-> CanonInline(blocks[i].children)]
       [] blocks[i].kind = "containerBlock" ->
            [kind |-> "containerBlock", type |-> blocks[i].type,
             attrs |-> AttrMap(blocks[i].attrs),
             children |-> CanonBlocks(blocks[i].children)]
       [] blocks[i].kind = "rawBlock" ->
            [kind |-> "rawBlock", type |-> blocks[i].type,
             attrs |-> AttrMap(blocks[i].attrs), lines |-> blocks[i].lines]
       [] blocks[i].kind = "blockObject" ->
            [kind |-> "blockObject", type |-> blocks[i].type,
             attrs |-> AttrMap(blocks[i].attrs)]]

toEqual(a, b) ==
  /\ a.ok /\ b.ok
  /\ CanonBlocks(a.blocks) = CanonBlocks(b.blocks)
  /\ a.selection = b.selection

(***************************************************************************)
(* State                                                                   *)
(*                                                                         *)
(* Two machines share the module.  The first makes the calls of the public *)
(* interface on one document: parse, serialize, parse again.  The second   *)
(* is a Lexer object driven token by token the way the Parser drives it.   *)
(***************************************************************************)
VARIABLES
  pc,         \* "start", "parsed", then "serialized", "done" or "matched";
              \* "lexer" in SpecLexer
  input,      \* the string given to parse, or to new Lexer
  state,      \* what parse(input) came to
  singleLine, \* the option given to serialize
  output,     \* serialize(state, {singleLine})
  again,      \* what parse(output) came to
  lexer,      \* the Lexer object
  before,     \* the Lexer as it was when the last call of nextToken began
  token,      \* the token the last call of nextToken returned
  thrown,     \* the error the last call of nextToken threw
  pattern,    \* the pattern string given to getRange, getPointBefore or
              \* getPointAfter
  range,      \* what getRange(state, pattern) came to
  point       \* what getPointBefore or getPointAfter(state, pattern) came to

apiVars == <<state, singleLine, output, again>>
lexVars == <<lexer, before, token, thrown>>
matchVars == <<pattern, range, point>>
vars == <<pc, input, state, singleLine, output, again, lexer, before, token, thrown,
          pattern, range, point>>

\* No call of getRange yet
NoRange == [range |-> NullSelection, err |-> NoError]

\* No call of getPointBefore or getPointAfter yet
NoPoint == [point |-> NullPoint, err |-> NoError]

NoResult ==
  [ok |-> FALSE, blocks |-> <<>>, selection |-> NullSelection,
   err |-> NoError, recorded |-> NullSelection]

(***************************************************************************)
(* The calls of the public interface                                       *)
(***************************************************************************)
Init ==
  /\ pc = "start"
  /\ input \in Documents
  /\ state = NoResult
  /\ singleLine = FALSE
  /\ output = <<>>
  /\ again = NoResult
  /\ lexer = NewLexer(input)
  /\ before = lexer
  /\ token = NoToken
  /\ thrown = NoError
  /\ pattern = <<>>
  /\ range = NoRange
  /\ point = NoPoint

\* state = parse(input)
Parse ==
  /\ pc = "start"
  /\ state' = parse(input)
  /\ pc' = "parsed"
  /\ UNCHANGED <<input, singleLine, output, again, lexVars, matchVars>>

\* output = serialize(state, {singleLine: option})
Serialize ==
  /\ pc = "parsed"
  /\ state.ok
  /\ \E option \in BOOLEAN :
       /\ singleLine' = option
       /\ output' = serialize(state.blocks, state.selection, option)
  /\ pc' = "serialized"
  /\ UNCHANGED <<input, state, again, lexVars, matchVars>>

\* again = parse(output)
Reparse ==
  /\ pc = "serialized"
  /\ again' = parse(output)
  /\ pc' = "done"
  /\ UNCHANGED <<input, state, singleLine, output, lexVars, matchVars>>

Next == Parse \/ Serialize \/ Reparse

Spec == Init /\ [][Next]_vars

(***************************************************************************)
(* The matcher: a document is parsed and then searched for a pattern       *)
(***************************************************************************)
InitMatcher ==
  /\ pc = "start"
  /\ input \in MatchDocuments
  /\ state = NoResult
  /\ singleLine = FALSE
  /\ output = <<>>
  /\ again = NoResult
  /\ lexer = NewLexer(input)
  /\ before = lexer
  /\ token = NoToken
  /\ thrown = NoError
  /\ pattern = <<>>
  /\ range = NoRange
  /\ point = NoPoint

\* range = getRange(state, patternStr)
GetRange ==
  /\ pc = "parsed"
  /\ state.ok
  /\ \E patternStr \in Patterns :
       /\ pattern' = patternStr
       /\ range' = getRange(state, patternStr)
  /\ pc' = "matched"
  /\ UNCHANGED <<input, apiVars, lexVars, point>>

NextMatcher == Parse \/ GetRange

SpecMatcher == InitMatcher /\ [][NextMatcher]_vars

(***************************************************************************)
(* The consumers of a parsed document: serialize and the three calls of    *)
(* the matcher                                                             *)
(***************************************************************************)
\* point = getPointBefore(state, patternStr)
GetPointBefore ==
  /\ pc = "parsed"
  /\ state.ok
  /\ \E patternStr \in Patterns :
       /\ pattern' = patternStr
       /\ point' = getPointBefore(state, patternStr)
  /\ pc' = "matched"
  /\ UNCHANGED <<input, apiVars, lexVars, range>>

\* point = getPointAfter(state, patternStr)
GetPointAfter ==
  /\ pc = "parsed"
  /\ state.ok
  /\ \E patternStr \in Patterns :
       /\ pattern' = patternStr
       /\ point' = getPointAfter(state, patternStr)
  /\ pc' = "matched"
  /\ UNCHANGED <<input, apiVars, lexVars, range>>

NextReaders ==
  Parse \/ Serialize \/ GetRange \/ GetPointBefore \/ GetPointAfter

SpecReaders == InitMatcher /\ [][NextReaders]_vars

(***************************************************************************)
(* The Lexer, token by token                                               *)
(***************************************************************************)
\* The number of lines of a lexer input made of lines
MaxLexLines == 3

\* The number of characters of a one-line lexer input
MaxChars == 4

\* Lines: empty, blank, indented by one, two and four spaces, by a tab, by
\* two spaces and a tab
LexLines ==
  {<<>>, <<"a">>, <<" ", "a">>, <<" ", " ">>, <<" ", " ", "a">>,
   <<" ", " ", " ", " ", "a">>, <<TAB>>, <<TAB, "a">>, <<" ", " ", TAB, "a">>}

RECURSIVE LexLineSeqs(_)
LexLineSeqs(n) ==
  IF n = 1 THEN LexLines
  ELSE LET shorter == LexLineSeqs(n - 1)
       IN  shorter \cup {s \o <<NL>> \o l : s \in shorter, l \in LexLines}

LexChars == {<<BS>>, <<"|">>, <<"^">>, <<"a">>, <<" ">>, <<";">>}

LexInputs ==
  LexLineSeqs(MaxLexLines)
  \cup {i \o s : i \in {<<>>, <<" ", " ">>}, s \in PieceSeqs(LexChars, MaxChars)}

InitLexer ==
  /\ pc = "lexer"
  /\ input \in LexInputs
  /\ state = NoResult
  /\ singleLine = FALSE
  /\ output = <<>>
  /\ again = NoResult
  /\ lexer = NewLexer(input)
  /\ before = lexer
  /\ token = NoToken
  /\ thrown = NoError
  /\ pattern = <<>>
  /\ range = NoRange
  /\ point = NoPoint

\* Parser.advance(): token = lexer.nextToken(), until the end of the input
\* or the first error
NextToken ==
  /\ pc = "lexer"
  /\ thrown = NoError
  /\ token.type # "EOF"
  /\ LET r == nextToken(lexer)
     IN  /\ before' = lexer
         /\ lexer' = r.lex
         /\ token' = r.tok
         /\ thrown' = r.err
  /\ UNCHANGED <<pc, input, apiVars, matchVars>>

\* parseRawBlock: lexer.setRawMode(true) stays in force when the current
\* token is the INDENT of the raw body; lexer.setRawMode(false) ends it.
SetRawMode ==
  /\ pc = "lexer"
  /\ thrown = NoError
  /\ \E enabled \in BOOLEAN :
       /\ enabled # lexer.inRawMode
       /\ enabled => token.type = "INDENT"
       /\ lexer' = setRawMode(lexer, enabled)
  /\ UNCHANGED <<pc, input, apiVars, before, token, thrown, matchVars>>

\* parseAttributes: lexer.setExpectIdent(true) in front of an attribute key
SetExpectIdent ==
  /\ pc = "lexer"
  /\ thrown = NoError
  /\ token.type = "SPACE"
  /\ ~lexer.expectIdent
  /\ lexer' = setExpectIdent(lexer, TRUE)
  /\ UNCHANGED <<pc, input, apiVars, before, token, thrown, matchVars>>

NextLexer == NextToken \/ SetRawMode \/ SetExpectIdent

SpecLexer == InitLexer /\ [][NextLexer]_vars

(***************************************************************************)
(* Markers of a source text                                                *)
(***************************************************************************)
\* The positions of s, from i on, that are not the second character of an
\* escape sequence
RECURSIVE UnescapedFrom(_, _)
UnescapedFrom(s, i) ==
  IF i > Len(s) THEN {}
  ELSE IF s[i] = BS THEN {i} \cup UnescapedFrom(s, i + 2)
  ELSE {i} \cup UnescapedFrom(s, i + 1)

MarkerPositions(s, m) == {i \in UnescapedFrom(s, 1) : s[i] = m}

HasMarker(s, m) == MarkerPositions(s, m) # {}

Least(S) == CHOOSE i \in S : \A j \in S : i <= j

RECURSIVE Keep(_, _, _)
Keep(s, drop, i) ==
  IF i > Len(s) THEN <<>>
  ELSE (IF i \in drop THEN <<>> ELSE <<s[i]>>) \o Keep(s, drop, i + 1)

\* s without its markers
Strip(s) == Keep(s, MarkerPositions(s, "|") \cup MarkerPositions(s, "^"), 1)

\* s without its second marker m
WithoutSecond(s, m) ==
  LET at == MarkerPositions(s, m)
  IN  Keep(s, {Least(at \ {Least(at)})}, 1)

\* The content of s in front of its first marker m
Before(s, m) == Strip(SubSeq(s, 1, Least(MarkerPositions(s, m)) - 1))

\* s is the serializer's own text for its content
Canonical(s) ==
  LET d == parse(Strip(s))
  IN  d.ok /\ serialize(d.blocks, d.selection, FALSE) = Strip(s)

\* Document order of two points
RECURSIVE PathLessEq(_, _)
PathLessEq(p, q) ==
  IF p = <<>> THEN TRUE
  ELSE IF q = <<>> THEN FALSE
  ELSE IF p[1] # q[1] THEN p[1] < q[1]
  ELSE PathLessEq(Tail(p), Tail(q))

PointLessEq(a, b) ==
  IF a.path = b.path THEN a.offset <= b.offset ELSE PathLessEq(a.path, b.path)

(***************************************************************************)
(* Claims                                                                  *)
(***************************************************************************)
\* C1: round trip in the default multiline form: when parse(s) succeeds with
\* d, parse(serialize(d)) succeeds and is structurally equal to d, selection
\* included.
RoundTripMultiline ==
  (pc = "done" /\ ~singleLine) => toEqual(again, state)

\* C2: round trip in the single-line form: when parse(s) succeeds with d,
\* parse(serialize(d, {singleLine: true})) succeeds and is structurally equal
\* to d, selection included, raw blocks included.
RoundTripSingleLine ==
  (pc = "done" /\ singleLine) => toEqual(again, state)

\* C3: every call of nextToken that returns consumes at least one character
\* of the input, returns a DEDENT or returns EOF, so that no token repeats
\* for ever and parse ends.
NextTokenProgress ==
  (pc = "lexer" /\ token # NoToken /\ thrown = NoError)
    => \/ lexer.pos > before.pos
       \/ token.type \in {"DEDENT", "EOF"}

\* C4: offset correctness: serialize(parse(s)) has each marker of s in front
\* of which the same content stands as in s (s being the serializer's own
\* text for its content); a collapsed selection shows its focus only.
OffsetCorrectness ==
  (pc = "serialized" /\ ~singleLine /\ Canonical(input))
    => /\ HasMarker(input, "|")
          => /\ HasMarker(output, "|")
             /\ Before(output, "|") = Before(input, "|")
       /\ (HasMarker(input, "|") /\ HasMarker(input, "^")
             /\ state.selection.anchor # state.selection.focus)
          => /\ HasMarker(output, "^")
             /\ Before(output, "^") = Before(input, "^")

SelectionUniqueness ==
  pc = "parsed"
    => /\ (Cardinality(MarkerPositions(input, "|")) >= 2
             /\ parse(WithoutSecond(input, "|")).ok)
          => state.err.code = "MultipleFocus"
       /\ (Cardinality(MarkerPositions(input, "^")) >= 2
             /\ parse(WithoutSecond(input, "^")).ok)
          => state.err.code = "MultipleAnchor"

\* C7: a source with an anchor marker `^` and no focus marker `|` is
\* rejected: parse throws instead of returning a state.
AnchorWithoutFocusRejected ==
  (pc = "parsed" /\ HasMarker(input, "^") /\ ~HasMarker(input, "|"))
    => ~state.ok

\* The leading run of spaces and tabs of the line that starts at index i
RECURSIVE IndentRun(_, _)
IndentRun(s, i) ==
  IF i <= Len(s) /\ s[i] \in {" ", TAB}
  THEN <<s[i]>> \o IndentRun(s, i + 1)
  ELSE <<>>

\* The last call of nextToken began at the start of a line that is not blank
AtNonBlankLine ==
  /\ pc = "lexer"
  /\ token # NoToken \/ thrown # NoError
  /\ before.pendingDedents = 0
  /\ before.atLineStart
  /\ LET after == before.pos + Len(IndentRun(input, before.pos + 1)) + 1
     IN  after <= Len(input) /\ input[after] # NL

\* The 1-based number of the line the last call of nextToken began in
LineOfCall == 1 + Cardinality({i \in 1..before.pos : input[i] = NL})

\* What the claim says of the indent run of a line, the column of a tab
\* error being tabColumn
IndentErrors(run, tabColumn) ==
  LET tabs == {i \in 1..Len(run) : run[i] = TAB}
  IN  /\ tabs # {}
        => thrown = parseError("TabsInIndentation", LineOfCall, tabColumn)
      /\ (tabs = {} /\ Len(run) % 2 # 0)
        => thrown = parseError("IndentationNotMultipleOfTwo", LineOfCall, 1)
      /\ (tabs = {} /\ Len(run) % 2 = 0
            /\ Len(run) > Top(before.indentStack) + 2)
        => thrown = parseError("IndentationSkipsLevel", LineOfCall, 1)

\* C8 as stated: a non-blank line whose indent run has a tab, an odd width or
\* a width more than 2 above the top of the indent stack throws
\* TabsInIndentation, IndentationNotMultipleOfTwo or IndentationSkipsLevel,
\* at the line and the column of the indent run.
IndentDisciplineAtRun ==
  AtNonBlankLine => IndentErrors(IndentRun(input, before.pos + 1), 1)

\* C8: the same, the error of a tab standing at the column of the first tab
\* of the run, the two others at the first column of the run.
IndentDiscipline ==
  AtNonBlankLine
    => LET run == IndentRun(input, before.pos + 1)
       IN  IndentErrors(run, Least({i \in 1..Len(run) + 1 :
                                      i > Len(run) \/ run[i] = TAB}))

\* A tab behind two spaces is reported at column 3 of its line
IndentDisciplineWitness ==
  /\ AtNonBlankLine
  /\ LineOfCall > 1
  /\ IndentRun(input, before.pos + 1) = <<" ", " ", TAB>>
  /\ thrown = parseError("TabsInIndentation", LineOfCall, 3)

\* C9: raw mode ends with the raw block: a source made of a raw block that
\* is not empty and then, from the first column on, of further blocks parses
\* into that raw block followed by those blocks.
RawModeConfined ==
  pc = "parsed"
    => \A n \in {i \in 1..Len(input) : input[i] = NL} :
         LET head == parse(SubSeq(input, 1, n - 1))
             rest == SubSeq(input, n + 1, Len(input))
             tail == parse(rest)
         IN  (/\ head.ok /\ Len(head.blocks) = 1
              /\ head.blocks[1].kind = "rawBlock"
              /\ Len(head.blocks[1].lines) >= 1
              /\ rest # <<>> /\ rest[1] # " "
              /\ tail.ok /\ Len(tail.blocks) >= 1
              /\ head.selection = NullSelection
                   \/ tail.selection = NullSelection)
             => /\ state.ok
                /\ state.blocks = head.blocks \o tail.blocks

\* C10: `|` and `^` are always tokens: a call of nextToken that begins at a
\* `|` or a `^`, which is then no part of an escape sequence, returns it as
\* FOCUS or ANCHOR, also behind a complete escape sequence.
MarkersAreTokens ==
  (/\ pc = "lexer"
   /\ token # NoToken /\ thrown = NoError
   /\ before.pendingDedents = 0 /\ ~before.atLineStart
   /\ peek(before, 0) \in {"|", "^"})
    => token.type = IF peek(before, 0) = "|" THEN "FOCUS" ELSE "ANCHOR"

\* The text the line of a raw block stands for, read from index i on: `\|`
\* is a `|` and `\^` a `^`, a backslash and another character are those two
\* characters, a `|` or `^` on its own is a marker and no text.
RECURSIVE RawLiteral(_, _)
RawLiteral(body, i) ==
  IF i > Len(body) THEN <<>>
  ELSE IF body[i] = BS /\ i < Len(body)
    THEN (IF body[i + 1] \in {"|", "^"} THEN <<body[i + 1]>>
          ELSE <<BS, body[i + 1]>>)
         \o RawLiteral(body, i + 2)
  ELSE IF body[i] \in {"|", "^"} THEN RawLiteral(body, i + 1)
  ELSE <<body[i]>> \o RawLiteral(body, i + 1)

\* C11: raw-mode escaping is exactly two sequences: in the line of a raw
\* block `\|` gives `|`, `\^` gives `^`, and a backslash in front of another
\* character gives the backslash and that character, with no
\* InvalidEscapeSequence.
RawEscapes ==
  (pc = "parsed" /\ input \in RawDocuments)
    => /\ state.err.code # "InvalidEscapeSequence"
       /\ state.ok
            => /\ Len(state.blocks) = 1
               /\ state.blocks[1].kind = "rawBlock"
               /\ state.blocks[1].lines
                    = <<RawLiteral(SubSeq(input, Len(RawHead) + 1, Len(input)), 1)>>

\* The one-line source of a block object with the markers pre in front of
\* its `{` and the markers post behind its `}`
ObjectSource(pre, post) == pre \o <<"{", "I", "}">> \o post

\* C12: selection around a block object: a marker that follows the closing
\* `}` is recorded at the path of the block object with offset 1, `^` as well
\* as `|`, and a marker in front of the opening `{` at that path with
\* offset 0.
BlockObjectSelection ==
  pc = "parsed"
    => \A pre, post \in {<<>>, <<"|">>, <<"^">>} :
         (input = ObjectSource(pre, post) /\ (pre = <<>> \/ pre # post))
           => /\ state.ok
              /\ Len(state.blocks) = 1
              /\ state.blocks[1].kind = "blockObject"
              /\ state.recorded.anchor
                   = IF pre = <<"^">> THEN Point(<<0>>, 0)
                     ELSE IF post = <<"^">> THEN Point(<<0>>, 1)
                     ELSE NullPoint
              /\ state.recorded.focus
                   = IF pre = <<"|">> THEN Point(<<0>>, 0)
                     ELSE IF post = <<"|">> THEN Point(<<0>>, 1)
                     ELSE NullPoint

\* C13: a collapsed selection is written as `|` only: when anchor and focus
\* of the state are the same point, the output of serialize, in either form,
\* has no marker `^` and exactly one marker `|`.
CollapsedEmitsFocusOnly ==
  (/\ pc = "serialized"
   /\ state.selection # NullSelection
   /\ state.selection.anchor = state.selection.focus)
    => /\ MarkerPositions(output, "^") = {}
       /\ Cardinality(MarkerPositions(output, "|")) = 1

\* The code point of a character of an identifier
CodePoint(c) ==
  LET lower == <<"a","b","c","d","e","f","g","h","i","j","k","l","m",
                 "n","o","p","q","r","s","t","u","v","w","x","y","z">>
      upper == <<"A","B","C","D","E","F","G","H","I","J","K","L","M",
                 "N","O","P","Q","R","S","T","U","V","W","X","Y","Z">>
      digit == <<"0","1","2","3","4","5","6","7","8","9">>
  IN  IF c = "-" THEN 45
      ELSE IF c \in Digits THEN 47 + (CHOOSE i \in 1..10 : digit[i] = c)
      ELSE IF c \in Upper THEN 64 + (CHOOSE i \in 1..26 : upper[i] = c)
      ELSE IF c = "_" THEN 95
      ELSE 96 + (CHOOSE i \in 1..26 : lower[i] = c)

\* a comes before b in code-point order
RECURSIVE CodePointLess(_, _)
CodePointLess(a, b) ==
  IF b = <<>> THEN FALSE
  ELSE IF a = <<>> THEN TRUE
  ELSE IF a[1] # b[1] THEN CodePoint(a[1]) < CodePoint(b[1])
  ELSE CodePointLess(Tail(a), Tail(b))

\* The text of the attributes in the order of the sequence entries
AttributesText(entries) ==
  Join([i \in 1..Len(entries) |->
          entries[i][1] \o <<"=">> \o serializeAttributeValue(entries[i][2])],
       <<" ">>)

\* C14: canonical attribute order: serialize writes the attributes of a node
\* with their keys in ascending code-point order, whatever the order of the
\* keys in the state.
AttributesInCodePointOrder ==
  (pc = "serialized" /\ input \in AttrDocuments /\ state.blocks[1].attrs # <<>>)
    => \E entries \in [1..Len(state.blocks[1].attrs)
                         -> AttrMap(state.blocks[1].attrs)] :
         /\ \A i \in 1..(Len(entries) - 1) :
              CodePointLess(entries[i][1], entries[i + 1][1])
         /\ output = <<"{", "I", " ">> \o AttributesText(entries) \o <<"}">>

\* The lines of s from index i on, cur being the line read so far
RECURSIVE SplitLines(_, _, _)
SplitLines(s, i, cur) ==
  IF i > Len(s) THEN <<cur>>
  ELSE IF s[i] = NL THEN <<cur>> \o SplitLines(s, i + 1, <<>>)
  ELSE SplitLines(s, i + 1, Append(cur, s[i]))

\* The number of the leading lines `U:`, `  U:`, ... that open a container
\* each inside the one before, k of them being counted already
RECURSIVE NestDepth(_, _)
NestDepth(lines, k) ==
  IF k < Len(lines) /\ lines[k + 1] = Spaces(2 * k) \o <<"U", ":">>
  THEN NestDepth(lines, k + 1)
  ELSE k

\* The source opens containers line by line and the last of them has no
\* line below it that is indented further
OpensEmptyContainer(s) ==
  LET lines == SplitLines(s, 1, <<>>)
      k == NestDepth(lines, 0)
  IN  /\ k >= 1
      /\ k < Len(lines) => Len(IndentRun(lines[k + 1], 1)) <= 2 * (k - 1)

\* The source opens containers `U:{` one in the other, k of them being
\* counted already, and closes the last with no child inside
RECURSIVE OpensEmptyBraces(_, _)
OpensEmptyBraces(s, k) ==
  IF Len(s) >= 3 /\ SubSeq(s, 1, 3) = <<"U", ":", "{">>
  THEN OpensEmptyBraces(SubSeq(s, 4, Len(s)), k + 1)
  ELSE k >= 1 /\ Len(s) >= 1 /\ s[1] = "}"

\* No container block among the blocks, at any depth, is without children
RECURSIVE NoEmptyContainer(_)
NoEmptyContainer(blocks) ==
  \A i \in 1..Len(blocks) :
    blocks[i].kind = "containerBlock"
      => Len(blocks[i].children) >= 1 /\ NoEmptyContainer(blocks[i].children)

\* C15: containers are never empty: every container block of the result of
\* a parse that succeeds, at any depth, from the indented and from the
\* `TYPE:{...}` form, has a child; a source whose container has no INDENT
\* below its colon, or nothing between its braces, makes parse throw
\* EmptyContainer.
ContainersNeverEmpty ==
  /\ pc # "start" /\ state.ok => NoEmptyContainer(state.blocks)
  /\ pc = "done" /\ again.ok => NoEmptyContainer(again.blocks)
  /\ (pc # "start" /\ (OpensEmptyContainer(input) \/ OpensEmptyBraces(input, 0)))
       => ~state.ok /\ state.err.code = "EmptyContainer"

\* The line is that of a text block: `P: ` behind its indentation
IsTextLine(line) ==
  LET n == Len(IndentRun(line, 1))
  IN  Len(line) >= n + 3 /\ SubSeq(line, n + 1, n + 3) = <<"P", ":", " ">>

\* The last block of a document that is not empty, inside its containers
RECURSIVE LastBlock(_)
LastBlock(blocks) ==
  LET last == blocks[Len(blocks)]
  IN  IF last.kind = "containerBlock" /\ Len(last.children) > 0
      THEN LastBlock(last.children) ELSE last

\* The lines k of the source that are the line of a text block with the
\* next line one level further in, the source up to line k being a document
\* that ends with this text block
ChildUnderTextBlock(s) ==
  LET lines == SplitLines(s, 1, <<>>)
  IN  {k \in 1..(Len(lines) - 1) :
         /\ IsTextLine(lines[k])
         /\ Len(IndentRun(lines[k + 1], 1)) = Len(IndentRun(lines[k], 1)) + 2
         /\ Len(lines[k + 1]) > Len(IndentRun(lines[k + 1], 1))
         /\ LET head == parse(Join(SubSeq(lines, 1, k), <<NL>>))
            IN  head.ok /\ LastBlock(head.blocks).kind = "textBlock"}

\* C16: a text block cannot have child blocks: when the inline content of a
\* text block is followed by a NEWLINE and then by a line that is indented
\* one level further, parse throws InvalidChildUnderTextBlock.
NoChildUnderTextBlock ==
  (pc # "start" /\ ChildUnderTextBlock(input) # {})
    => ~state.ok /\ state.err.code = "InvalidChildUnderTextBlock"

\* The text block is itself the child of a container
NoChildUnderTextBlockWitness ==
  /\ pc = "parsed"
  /\ \E k \in ChildUnderTextBlock(input) :
       Len(IndentRun(SplitLines(input, 1, <<>>)[k], 1)) = 2
  /\ state.err.code = "InvalidChildUnderTextBlock"

\* The Text descendants of the inline nodes from node i on, left to right
\* and depth first, each with its path
RECURSIVE TextNodesFrom(_, _, _)
TextNodesFrom(nodes, path, i) ==
  IF i >= Len(nodes) THEN <<>>
  ELSE (IF nodes[i + 1].kind = "text"
          THEN <<[path |-> Append(path, i), text |-> nodes[i + 1].text]>>
        ELSE IF nodes[i + 1].kind = "mark"
          THEN TextNodesFrom(nodes[i + 1].children, Append(path, i), 0)
        ELSE <<>>)
       \o TextNodesFrom(nodes, path, i + 1)

\* The Text descendants of the top-level text blocks from block k on, in
\* document order
RECURSIVE DocumentTextNodes(_, _)
DocumentTextNodes(blocks, k) ==
  IF k >= Len(blocks) THEN <<>>
  ELSE (IF blocks[k + 1].kind = "textBlock"
        THEN TextNodesFrom(blocks[k + 1].children, <<k>>, 0) ELSE <<>>)
       \o DocumentTextNodes(blocks, k + 1)

\* t stands in text at offset k
OccursAt(text, t, k) ==
  k + Len(t) <= Len(text) /\ SubSeq(text, k + 1, k + Len(t)) = t

\* The Text nodes of the list, by index, that contain t
NodesWith(textNodes, t) ==
  {n \in 1..Len(textNodes) :
     \E k \in 0..Len(textNodes[n].text) : OccursAt(textNodes[n].text, t, k)}

\* The occurrence of t that comes first in the list of Text nodes, as a
\* range; NullSelection when there is none
FirstOccurrence(textNodes, t) ==
  IF NodesWith(textNodes, t) = {} THEN NullSelection
  ELSE LET node == textNodes[Least(NodesWith(textNodes, t))]
           k == Least({j \in 0..Len(node.text) : OccursAt(node.text, t, j)})
       IN  [anchor |-> Point(node.path, k),
            focus  |-> Point(node.path, k + Len(t))]

\* C17 as the sentence has it, the empty text among the patterns: for a
\* pattern t of plain text, getRange(d, t) is the occurrence of t that comes
\* first in document order, and null exactly when no Text descendant of a
\* top-level text block contains t.
LeftmostTextMatchOfAnyText ==
  (pc = "matched" /\ pattern \in TextPatterns)
    => /\ range.err = NoError
       /\ range.range = FirstOccurrence(DocumentTextNodes(state.blocks, 0),
                                        pattern)

\* C17: for a pattern t of plain text that is not empty, getRange(d, t) is
\* the occurrence of t that comes first in document order (the earliest
\* top-level text block, then the earliest Text descendant left to right and
\* depth first, then the smallest offset), the anchor at its start and the
\* focus at its start plus the length of t; it is null exactly when no Text
\* descendant of a top-level text block contains t.  For the empty pattern
\* getRange returns null.
LeftmostTextMatch ==
  (pc = "matched" /\ pattern \in TextPatterns)
    => /\ range.err = NoError
       /\ range.range =
            IF pattern = <<>> THEN NullSelection
            ELSE FirstOccurrence(DocumentTextNodes(state.blocks, 0), pattern)

\* t occurs in two Text nodes, the first of them inside a mark, and the
\* range returned is in that one
LeftmostTextMatchWitness ==
  /\ pc = "matched"
  /\ pattern \in TextPatterns
  /\ pattern # <<>>
  /\ Cardinality(NodesWith(DocumentTextNodes(state.blocks, 0), pattern)) >= 2
  /\ range.range # NullSelection
  /\ Len(range.range.anchor.path) > 2

\* Every key of the pattern's attributes is a key of the document node's
\* attributes, with an equal value
AttrsSuperset(docAttrs, patternAttrs) ==
  \A i \in 1..Len(patternAttrs) :
    \E j \in 1..Len(docAttrs) :
      /\ docAttrs[j][1] = patternAttrs[i][1]
      /\ docAttrs[j][2] = patternAttrs[i][2]

\* The document is one text block whose one child is a mark of text or an
\* inline object
OneNodeDocument(blocks) ==
  /\ Len(blocks) = 1
  /\ blocks[1].kind = "textBlock"
  /\ Len(blocks[1].children) = 1
  /\ blocks[1].children[1].kind \in {"mark", "inlineObject"}
  /\ blocks[1].children[1].kind = "mark"
       => \A i \in 1..Len(blocks[1].children[1].children) :
            blocks[1].children[1].children[i].kind = "text"

\* The pattern is one text block that begins with a node of the kind and
\* type of the document node, and for a mark of its mode and with a text
\* the document mark's text begins with
SameTypePattern(docNode, pat) ==
  /\ pat.ok
  /\ Len(pat.blocks) = 1
  /\ pat.blocks[1].kind = "textBlock"
  /\ Len(pat.blocks[1].children) >= 1
  /\ pat.blocks[1].children[1].kind = docNode.kind
  /\ pat.blocks[1].children[1].type = docNode.type
  /\ docNode.kind = "mark"
       => /\ pat.blocks[1].children[1].mode = docNode.mode
          /\ startsWith(extractText(docNode.children),
                        extractText(pat.blocks[1].children[1].children))

\* C18: a pattern mark or inline object matches a document node of the same
\* type (and mode, for marks) if and only if every attribute key of the
\* pattern is a key of the document node with a deeply equal value: keys the
\* pattern leaves out match any value, a key of the pattern with another
\* value in the document, or without one, prevents the match.  Seen on the
\* documents of one node, where getRange returns a range exactly when that
\* node matches.
AttributeSupersetMatching ==
  (pc = "matched" /\ OneNodeDocument(state.blocks))
    => Bind(parsePattern(pattern), LAMBDA pat :
         SameTypePattern(state.blocks[1].children[1], pat)
           => ((range.range # NullSelection)
                 <=> AttrsSuperset(state.blocks[1].children[1].attrs,
                                   pat.blocks[1].children[1].attrs)))

\* A mark with two attributes is found by a pattern that names one of them
AttributeSupersetMatchingWitness ==
  /\ pc = "matched"
  /\ OneNodeDocument(state.blocks)
  /\ state.blocks[1].children[1].kind = "mark"
  /\ Len(state.blocks[1].children[1].attrs) = 2
  /\ pattern \in MarkWithAttrs
  /\ Len(parsePattern(pattern).blocks[1].children[1].attrs) = 1
  /\ range.range # NullSelection

\* The marks among the inline nodes from node i on and inside them, a mark
\* before the marks inside it, each with its siblings, its index among them
\* and the path of their parent
RECURSIVE MarksFrom(_, _, _)
MarksFrom(nodes, path, i) ==
  IF i >= Len(nodes) THEN <<>>
  ELSE (IF nodes[i + 1].kind = "mark"
        THEN <<[siblings |-> nodes, index |-> i, base |-> path]>>
             \o MarksFrom(nodes[i + 1].children, Append(path, i), 0)
        ELSE <<>>)
       \o MarksFrom(nodes, path, i + 1)

\* The marks of the top-level text blocks from block k on, in document order
RECURSIVE DocumentMarks(_, _)
DocumentMarks(blocks, k) ==
  IF k >= Len(blocks) THEN <<>>
  ELSE (IF blocks[k + 1].kind = "textBlock"
        THEN MarksFrom(blocks[k + 1].children, <<k>>, 0) ELSE <<>>)
       \o DocumentMarks(blocks, k + 1)

\* The pattern is one text block that begins with a mark
IsMarkPattern(pat) ==
  /\ pat.ok
  /\ Len(pat.blocks) = 1
  /\ pat.blocks[1].kind = "textBlock"
  /\ Len(pat.blocks[1].children) >= 1
  /\ pat.blocks[1].children[1].kind = "mark"

\* The marks of the list, by index, that the pattern mark matches
MatchingMarks(marks, patternMark) ==
  {n \in 1..Len(marks) :
     matchesMark(marks[n].siblings[marks[n].index + 1], patternMark)}

\* The positions C19 gives for a match at sibling index m.index under the
\* base path m.base
MarkPositions(m) ==
  [anchor |->
     IF m.index > 0 /\ m.siblings[m.index].kind = "text"
     THEN Point(m.base \o <<m.index - 1>>, Len(m.siblings[m.index].text))
     ELSE Point(m.base \o <<m.index>>, 0),
   focus |-> Point(m.base \o <<m.index + 1>>, 0)]

\* C19: when the pattern mark matches a document mark, the first in document
\* order being at sibling index i under the base path p, getRange returns
\* the anchor (path of sibling i-1, length of its text) if i > 0 and sibling
\* i-1 is a Text node, and (p + [i], 0) otherwise; and the focus
\* (p + [i+1], 0), which is (p + [children.length], 0) when the mark is the
\* last sibling.
MarkMatchPositions ==
  pc = "matched"
    => Bind(parsePattern(pattern), LAMBDA pat :
         IsMarkPattern(pat)
           => Bind(DocumentMarks(state.blocks, 0), LAMBDA marks :
                Bind(MatchingMarks(marks, pat.blocks[1].children[1]),
                     LAMBDA matching :
                  matching # {}
                    => /\ range.range = MarkPositions(marks[Least(matching)])
                       /\ marks[Least(matching)].index
                            = Len(marks[Least(matching)].siblings) - 1
                            => range.range.focus.path
                                 = marks[Least(matching)].base
                                   \o <<Len(marks[Least(matching)].siblings)>>)))

\* A mark inside a mark is matched: it has a Text node in front of it and a
\* sibling behind it
MarkMatchPositionsWitness ==
  /\ pc = "matched"
  /\ IsMarkPattern(parsePattern(pattern))
  /\ range.range # NullSelection
  /\ Len(range.range.anchor.path) = 3
  /\ range.range.anchor.offset > 0
  /\ range.range.focus.path = <<0, 0, 2>>

\* The pattern has at least two blocks, text blocks all of them
IsBlocksPattern(pat) ==
  /\ pat.ok
  /\ Len(pat.blocks) >= 2
  /\ \A i \in 1..Len(pat.blocks) : pat.blocks[i].kind = "textBlock"

\* The text of a text block
BlockText(block) == extractText(block.children)

\* The s of C20: D[s..s+n-1] are text blocks, the text of D[s] ends with the
\* text of P[0], the text of D[s+n-1] begins with the text of P[n-1], and
\* the texts of the blocks between are those of the pattern's
MultiBlockStarts(blocks, patternBlocks) ==
  LET n == Len(patternBlocks)
  IN  {s \in 0..(Len(blocks) - n) :
         /\ \A i \in 0..(n - 1) : blocks[s + i + 1].kind = "textBlock"
         /\ endsWith(BlockText(blocks[s + 1]), BlockText(patternBlocks[1]))
         /\ startsWith(BlockText(blocks[s + n]), BlockText(patternBlocks[n]))
         /\ \A i \in 1..(n - 2) :
              BlockText(blocks[s + i + 1]) = BlockText(patternBlocks[i + 1])}

RECURSIVE TextLengthBefore(_, _)
\* The length of the text of the first k Text nodes of the list
TextLengthBefore(textNodes, k) ==
  IF k = 0 THEN 0
  ELSE TextLengthBefore(textNodes, k - 1) + Len(textNodes[k].text)

\* The place of a point in the text of block number index: the number of
\* characters of the block's text in front of it, and -1 for a point that is
\* not in a Text node of the block
TextOffset(block, index, pt) ==
  LET textNodes == TextNodesFrom(block.children, <<index>>, 0)
      at == {k \in 1..Len(textNodes) : textNodes[k].path = pt.path}
  IN  IF at = {} \/ pt.offset < 0 THEN -1
      ELSE TextLengthBefore(textNodes, Least(at) - 1) + pt.offset

\* C20: for a pattern of n >= 2 blocks P[0..n-1], getRange returns a range
\* for the smallest s such that D[s..s+n-1] are all text blocks, the text of
\* D[s] ends with the text of P[0], the text of D[s+n-1] begins with that of
\* P[n-1] and the text of every block between equals the pattern block's;
\* the anchor is the start of that suffix in D[s], the focus the end of that
\* prefix in D[s+n-1]; null is returned iff there is no such s.
MultiBlockMatch ==
  pc = "matched"
    => Bind(parsePattern(pattern), LAMBDA pat :
         IsBlocksPattern(pat)
           => Bind(MultiBlockStarts(state.blocks, pat.blocks), LAMBDA starts :
                IF starts = {} THEN range.range = NullSelection
                ELSE
                  LET s == Least(starts)
                      e == Least(starts) + Len(pat.blocks) - 1
                  IN  /\ range.range # NullSelection
                      /\ TextOffset(state.blocks[s + 1], s, range.range.anchor)
                           = Len(BlockText(state.blocks[s + 1]))
                             - Len(BlockText(pat.blocks[1]))
                      /\ TextOffset(state.blocks[e + 1], e, range.range.focus)
                           = Len(BlockText(pat.blocks[Len(pat.blocks)]))))

\* The pattern's blocks are text blocks and the first is one Text node
IsTextFirstPattern(pat) ==
  /\ pat.ok
  /\ \A i \in 1..Len(pat.blocks) : pat.blocks[i].kind = "textBlock"
  /\ isSingleTextPattern(pat.blocks[1].children)

\* The top-level text blocks, by index, in which the inline nodes of a
\* pattern of one block are found
BlocksWithMatch(blocks, patternNodes) ==
  {k \in 0..(Len(blocks) - 1) :
     /\ blocks[k + 1].kind = "textBlock"
     /\ searchInChildren(blocks[k + 1].children, patternNodes, <<k>>)
          # NullSelection}

SerializerAfter(editorState, option) ==
  SerializerSerialize(NewSerializer(editorState.selection, option),
                      editorState.blocks).s

RECURSIVE MarkedRawLine(_, _, _, _)
MarkedRawLine(line, anchorOffset, focusOffset, i) ==
  (IF anchorOffset = i THEN <<"^">> ELSE <<>>)
  \o (IF focusOffset = i THEN <<"|">> ELSE <<>>)
  \o (IF i < Len(line)
      THEN (IF line[i + 1] \in {"|", "^"} THEN <<BS, line[i + 1]>>
            ELSE <<line[i + 1]>>)
           \o MarkedRawLine(line, anchorOffset, focusOffset, i + 1)
      ELSE <<>>)

\* C23: for a raw line L and a selection point at offset k in that line, the
\* serializer puts the marker immediately in front of the k-th character of
\* the unescaped L, k counting the characters of L and not those of its
\* escaped form, also when L has `|` or `^` in front of k; parsing the
\* output records offset k again.
RawLineMarkerPlacement ==
  (/\ input \in RawDocuments
   /\ pc \in {"serialized", "done"}
   /\ ~singleLine
   /\ state.selection # NullSelection)
    => LET line == state.blocks[1].lines[1]
           focus == state.selection.focus
           anchor == state.selection.anchor
       IN  /\ output = <<"C", "!", ":", NL, " ", " ">>
                       \o MarkedRawLine(line,
                                        IF anchor = focus THEN -1
                                        ELSE anchor.offset,
                                        focus.offset, 0)
           /\ pc = "done"
                => /\ again.ok
                   /\ again.selection = state.selection

\* C24: for every state that parse gives with a selection, the output of
\* serialize, in either form, has exactly one marker `|`, and exactly one
\* marker `^` when the selection is not collapsed: no end of the selection
\* is left out and none is written twice.
MarkerEmissionCount ==
  (pc = "serialized" /\ state.selection # NullSelection)
    => /\ Cardinality(MarkerPositions(output, "|")) = 1
       /\ state.selection.anchor # state.selection.focus
            => Cardinality(MarkerPositions(output, "^")) = 1

\* The rest of a path and an offset are a place among the inline nodes: the
\* indices go through marks, an index is at most the number of children, and
\* the offset is 0..text.length in a Text node, 0 or 1 at an inline object,
\* and 0 behind the last child and in front of a mark
RECURSIVE ValidInlinePoint(_, _, _)
ValidInlinePoint(nodes, path, offset) ==
  IF path = <<>> \/ path[1] < 0 \/ path[1] > Len(nodes) THEN FALSE
  ELSE IF path[1] = Len(nodes) THEN Len(path) = 1 /\ offset = 0
  ELSE LET node == nodes[path[1] + 1]
       IN  IF Len(path) = 1
           THEN IF node.kind = "text" THEN offset \in 0..Len(node.text)
                ELSE IF node.kind = "inlineObject" THEN offset \in {0, 1}
                ELSE offset = 0
           ELSE /\ node.kind = "mark"
                /\ ValidInlinePoint(node.children, Tail(path), offset)

\* The same for a path from a list of blocks on: through containers into
\* text blocks and to the lines of raw blocks; 0 or 1 at a block object, 0
\* behind the last block and in front of any other block
RECURSIVE ValidBlockPoint(_, _, _)
ValidBlockPoint(blocks, path, offset) ==
  IF path = <<>> \/ path[1] < 0 \/ path[1] > Len(blocks) THEN FALSE
  ELSE IF path[1] = Len(blocks) THEN Len(path) = 1 /\ offset = 0
  ELSE LET block == blocks[path[1] + 1]
       IN  IF Len(path) = 1
           THEN IF block.kind = "blockObject" THEN offset \in {0, 1}
                ELSE offset = 0
           ELSE CASE block.kind = "textBlock" ->
                       ValidInlinePoint(block.children, Tail(path), offset)
                  [] block.kind = "containerBlock" ->
                       ValidBlockPoint(block.children, Tail(path), offset)
                  [] block.kind = "rawBlock" ->
                       /\ Len(path) = 2
                       /\ path[2] \in 0..Len(block.lines)
                       /\ IF path[2] = Len(block.lines) THEN offset = 0
                          ELSE offset \in 0..Len(block.lines[path[2] + 1])
                  [] OTHER -> FALSE

\* C25: in every successful parse result with a selection, the path of each
\* end of the selection goes through nodes that exist in the final tree,
\* every index being at most the number of children at its level, and the
\* offset is in the range of what the path comes to: 0..text.length for a
\* Text node or a raw line, 0 or 1 for an object, 0 for a place between
\* children.
RecordedPointsValid ==
  (pc = "parsed" /\ state.ok /\ state.selection # NullSelection)
    => /\ ValidBlockPoint(state.blocks, state.selection.anchor.path,
                          state.selection.anchor.offset)
       /\ ValidBlockPoint(state.blocks, state.selection.focus.path,
                          state.selection.focus.offset)

\* A selection at the end of a text inside a mark
RecordedPointsValidWitness ==
  /\ pc = "parsed"
  /\ state.ok
  /\ state.selection # NullSelection
  /\ Len(state.selection.focus.path) = 3
  /\ state.selection.focus.offset > 0

\* C26: in every state of the lexer the indent stack is exactly
\* [0, 2, 4, ..., 2k] for some k >= 0: seeded with 0, rising in steps of 2,
\* its bottom element never popped.
IndentStackInvariant ==
  pc = "lexer"
    => /\ Len(lexer.indentStack) >= 1
       /\ \A i \in 1..Len(lexer.indentStack) :
            lexer.indentStack[i] = 2 * (i - 1)

\* Two levels were on the stack, and one call of nextToken has popped both
IndentStackInvariantWitness ==
  /\ pc = "lexer"
  /\ thrown = NoError
  /\ before.indentStack = <<0, 2, 4>>
  /\ lexer.indentStack = <<0>>
  /\ token.type = "DEDENT"

\* C27: when a non-blank line's indent width is below the top of the stack
\* and n levels are popped, nextToken returns DEDENT at once and leaves
\* n - 1 pending; every call with dedents pending returns DEDENT, takes one
\* from the counter and reads nothing; and the call after the last DEDENT of
\* the run returns a token of the line's content with the counter at 0.  So
\* exactly n DEDENT tokens come on n consecutive calls before the content.
MultiLevelDedent ==
  [][NextToken
       => /\ lexer.pendingDedents > 0
               => /\ thrown' = NoError
                  /\ token'.type = "DEDENT"
                  /\ lexer'.pendingDedents = lexer.pendingDedents - 1
                  /\ lexer'.pos = lexer.pos
                  /\ lexer'.indentStack = lexer.indentStack
          /\ (/\ lexer.pendingDedents = 0
              /\ thrown' = NoError
              /\ Len(lexer'.indentStack) < Len(lexer.indentStack)
              /\ ~isEOF(lexer'))
               => /\ token'.type = "DEDENT"
                  /\ lexer'.pendingDedents
                       = Len(lexer.indentStack) - Len(lexer'.indentStack) - 1
          /\ (/\ token.type = "DEDENT"
              /\ lexer.pendingDedents = 0
              /\ ~isEOF(lexer)
              /\ thrown' = NoError)
               => /\ token'.type \notin {"DEDENT", "INDENT"}
                  /\ lexer'.pendingDedents = 0]_vars

\* The second DEDENT of a dedent over two levels has come from the counter
MultiLevelDedentWitness ==
  /\ pc = "lexer"
  /\ thrown = NoError
  /\ token.type = "DEDENT"
  /\ before.pendingDedents = 1
  /\ lexer.pendingDedents = 0
  /\ lexer.indentStack = <<0>>
  /\ ~isEOF(lexer)

\* The types of the tokens that nextToken returns from the lexer L on, up to
\* EOF or the first error.  A call that returns a token other than EOF and
\* leaves the lexer as it was will do so for ever.
RECURSIVE StreamFrom(_)
StreamFrom(L) ==
  Bind(nextToken(L), LAMBDA r :
    IF r.err # NoError THEN [types |-> <<>>, err |-> r.err]
    ELSE IF r.tok.type = "EOF" THEN [types |-> <<"EOF">>, err |-> NoError]
    ELSE IF r.lex = L THEN [types |-> <<>>, err |-> DoesNotTerminate]
    ELSE Bind(StreamFrom(r.lex), LAMBDA rest :
           [types |-> <<r.tok.type>> \o rest.types, err |-> rest.err]))

CountOf(types, n, type) == Cardinality({i \in 1..n : types[i] = type})

\* The levels the lexer L still has to close
OpenLevels(L) == (Len(L.indentStack) - 1) + L.pendingDedents

\* C28: at the end of the input with k levels above 0 on the indent stack
\* the lexer returns exactly k DEDENT tokens and then EOF; and in the
\* stream of an input that lexes without error, from any point on, the
\* DEDENT tokens exceed the INDENT tokens by the levels open at that point,
\* and in no prefix by more: over the whole stream (no level open at the
\* start) the two numbers are equal and no prefix has more DEDENTs.
DedentsAtEndOfInput ==
  (pc = "lexer" /\ thrown = NoError)
    => Bind(StreamFrom(lexer), LAMBDA rest :
         rest.err = NoError
              => /\ CountOf(rest.types, Len(rest.types), "DEDENT")
                      = CountOf(rest.types, Len(rest.types), "INDENT")
                          + OpenLevels(lexer)
                 /\ \A n \in 0..Len(rest.types) :
                      CountOf(rest.types, n, "DEDENT")
                        <= CountOf(rest.types, n, "INDENT")
                             + OpenLevels(lexer)
                 /\ isEOF(lexer)
                      => rest.types
                           = [i \in 1..OpenLevels(lexer) |-> "DEDENT"]
                               \o <<"EOF">>)

\* The input has ended two levels above 0 and the first of the two DEDENT
\* tokens has been returned
DedentsAtEndOfInputWitness ==
  /\ pc = "lexer"
  /\ thrown = NoError
  /\ token.type = "DEDENT"
  /\ isEOF(before)
  /\ before.indentStack = <<0, 2, 4>>
  /\ lexer.indentStack = <<0, 2>>
  /\ lexer.pendingDedents = 0

\* The end of the line that the lexer L is in: the position of its LF, or
\* the length of the input
RECURSIVE LineEnd(_, _)
LineEnd(L, i) ==
  IF i >= Len(L.input) \/ L.input[i + 1] = NL THEN i ELSE LineEnd(L, i + 1)

\* The lexer L is at the start of a line that consists of characters of
\* `white` only
BlankLineAt(L, white) ==
  /\ L.atLineStart
  /\ ~isEOF(L)
  /\ \A i \in (L.pos + 1)..LineEnd(L, L.pos) : L.input[i] \in white

\* C29: the nextToken call at the start of a line that consists only of
\* whitespace throws nothing and returns no INDENT; when the line ends with
\* LF it returns the NEWLINE and leaves the indent stack as it was, and when
\* the line ends the input it returns what the end of the input is due, a
\* DEDENT or EOF.
BlankLinesIndentationNeutral ==
  [][(NextToken /\ BlankLineAt(lexer, {" ", TAB}))
       => /\ thrown' = NoError
          /\ token'.type # "INDENT"
          /\ IF LineEnd(lexer, lexer.pos) < Len(lexer.input)
             THEN /\ token'.type = "NEWLINE"
                  /\ lexer'.indentStack = lexer.indentStack
                  /\ lexer'.pendingDedents = 0
             ELSE token'.type \in {"DEDENT", "EOF"}]_vars

\* The same for the lines that consist of spaces only
SpaceLinesIndentationNeutral ==
  [][(NextToken /\ BlankLineAt(lexer, {" "}))
       => /\ thrown' = NoError
          /\ token'.type # "INDENT"
          /\ IF LineEnd(lexer, lexer.pos) < Len(lexer.input)
             THEN /\ token'.type = "NEWLINE"
                  /\ lexer'.indentStack = lexer.indentStack
                  /\ lexer'.pendingDedents = 0
             ELSE token'.type \in {"DEDENT", "EOF"}]_vars

\* The children lists of the inline nodes: the list itself and the lists
\* inside its marks
RECURSIVE InlineChildLists(_)
InlineChildLists(nodes) ==
  {nodes} \cup UNION {InlineChildLists(nodes[i].children) :
                        i \in {j \in 1..Len(nodes) : nodes[j].kind = "mark"}}

\* The children lists of the text blocks among the blocks and inside their
\* containers, and of the marks in them
RECURSIVE BlockChildLists(_)
BlockChildLists(blocks) ==
  UNION {IF blocks[i].kind = "textBlock"
           THEN InlineChildLists(blocks[i].children)
         ELSE IF blocks[i].kind = "containerBlock"
           THEN BlockChildLists(blocks[i].children)
         ELSE {} : i \in 1..Len(blocks)}

NoAdjacentText(nodes) ==
  \A i \in 1..(Len(nodes) - 1) :
    ~(nodes[i].kind = "text" /\ nodes[i + 1].kind = "text")

\* The source is one text block line without bracket or brace: text,
\* escape sequences and selection markers only
IsContiguousText(source) ==
  /\ Len(source) >= 3
  /\ SubSeq(source, 1, 3) = <<"P", ":", " ">>
  /\ \A i \in 1..Len(source) : source[i] \notin {"[", "]", "{", "}", NL, ";"}

\* C30: in every successful parse result no children list of a text block
\* or of a mark has two adjacent Text nodes, and a text block whose source
\* is text, escape sequences and selection markers only has at most one
\* child, a Text node.
TextCoalescing ==
  (pc # "start" /\ state.ok)
    => /\ \A nodes \in BlockChildLists(state.blocks) : NoAdjacentText(nodes)
       /\ IsContiguousText(input)
            => /\ Len(state.blocks) = 1
               /\ state.blocks[1].kind = "textBlock"
               /\ Len(state.blocks[1].children) <= 1
               /\ \A i \in 1..Len(state.blocks[1].children) :
                    state.blocks[1].children[i].kind = "text"

\* Text on either side of a selection marker and of an escape sequence has
\* been parsed into one Text node
TextCoalescingWitness ==
  /\ pc = "parsed"
  /\ state.ok
  /\ IsContiguousText(input)
  /\ \E i \in 1..Len(input) : input[i] = BS
  /\ state.recorded.focus = Point(<<0, 0>>, 1)
  /\ Len(state.blocks[1].children) = 1
  /\ Len(state.blocks[1].children[1].text) = 3

=============================================================================
